---- MODULE Spec2Model ----
(***************************************************************************)
(* w5::ThreadPool, both variants of thread_pool.hpp:                       *)
(*   "cpp11"  std::thread workers, std::atomic<bool> stop_   (lines 36-229)*)
(*   "cpp20"  std::jthread workers, std::stop_source         (lines 314-937)*)
(* Threads are the workers (WorkerLoop) and the callers of the public      *)
(* methods (Submit, SubmitWithToken, Shutdown, WaitForAll).  A step is one *)
(* critical section of queue_mutex_, one atomic operation outside it, or   *)
(* one run of a task body.  Submit keeps queue_mutex_ over two steps (the  *)
(* stop check and the emplace) because the cpp20 stop flag is written      *)
(* without the mutex.                                                      *)
(***************************************************************************)
EXTENDS Integers, Sequences, FiniteSets, TLC

\* ------------------------------------------------------------------ bounds
MaxWorkers == 2        \* largest num_threads passed to the constructor
NumCallers == 2        \* threads calling the public methods
MaxTasks   == 2        \* Submit / SubmitWithToken calls in one behaviour
MaxIters   == 2        \* planned iterations of a token-polling task
MaxGets    == 2        \* get() calls made on one handle
NumThreads == 3        \* threads using one ThreadSafeRingBuffer
MaxCapacity == 2       \* largest Capacity the buffer is instantiated with
MaxPushes  == 3        \* Push calls in one behaviour
MaxFewPushes == 2      \* Push calls in one behaviour of the fair ring buffer

Variants == {"cpp11", "cpp20"}
Workers  == 1..MaxWorkers
Callers  == 1..NumCallers
TaskIds  == 1..MaxTasks
Kinds    == {"plain", "token"}
Free     == 0          \* queue_mutex_ not held across a step

VARIABLES
  variant,        \* which of the two ThreadPool classes is built
  handle,        \* the client's std::future of each submission
  ctor,          \* how far the constructor has got, and how it ended
  probe,         \* the latest introspection call: what it read and how
  num_threads,   \* the constructor's argument
  workers_,       \* std::vector of worker threads, as the sequence of ids
  nStarted,       \* number of WorkerLoop threads the constructor started
  tasks_,         \* std::queue of type-erased tasks, as task ids
  queue_mutex_,   \* Free, or the caller holding it inside Submit
  stop_,          \* cpp11 stop_ / cpp20 stop_source_.stop_requested()
  jstop,          \* cpp20: stop state of each jthread's own stop source
  active_tasks_,  \* std::atomic<size_t> active_tasks_
  wstate,         \* position of each worker in WorkerLoop
  wtask,          \* the task a worker moved out of the queue (0: none)
  wdrain,         \* cpp20: the worker has left the main loop (line 836 on)
  witer,          \* iterations done by the token task a worker is running
  joined,         \* how many times each worker thread has been joined
  pc,             \* position of each caller
  ctask,          \* task id of the caller's Submit in progress
  cidx,           \* index into workers_ of the caller's join loop
  cafter,         \* the caller's Shutdown began after an earlier one returned
  nextTask,       \* submissions made so far
  taskFn,         \* how each task was submitted: Submit or SubmitWithToken
  future,         \* shared state of each submission's std::future
  enqOrder,       \* tasks in the order tasks_.emplace took effect
  deqOrder,       \* tasks in the order they were moved out of tasks_
  doneCount,      \* how many times each task's body has returned
  execCount,      \* invocations of each packaged_task
  threw,          \* tasks whose body raised an exception
  rejected,       \* submissions that threw std::runtime_error
  iterations_completed, \* iterations each token task has completed
  shutdownDone,   \* some Shutdown() call has returned
  Capacity,       \* ThreadSafeRingBuffer's template parameter (0: no buffer)
  buffer_,        \* std::array<T, Capacity> buffer_, indexed from 0
  head_,          \* index Pop reads next
  tail_,          \* index Push writes next
  count_,         \* number of stored items
  stopped_,       \* the buffer's stop flag
  rpc,            \* position of each thread that uses the buffer
  ritem,          \* the item a Push has yet to store / a Pop has yet to return
  rtimed,         \* the thread's wait in progress has a finite timeout
  nPush,          \* Push calls made so far
  pushed,         \* items in the order their Push took effect
  popped,         \* items in the order their Pop took effect
  wasReset,       \* Reset() has been called
  total_frames,   \* the argument of ImageProducer::Start
  produced_count_, \* ImageProducer::produced_count_
  running_,       \* each ImageConsumer's running_ flag
  consumed_count_, \* each ImageConsumer's consumed_count_
  image,          \* the frame a consumer's Pop returned, not yet processed
  processed,      \* the frames each consumer has processed
  ppos,           \* position of the producer thread in ProducerLoop
  cpos,           \* position of each consumer thread in ConsumerLoop
  mpos            \* position of the main thread in TestProducerConsumer

ringVars == <<Capacity, buffer_, head_, tail_, count_, stopped_, rpc, ritem,
              rtimed, nPush, pushed, popped, wasReset>>

pipeVars == <<total_frames, produced_count_, running_, consumed_count_, image,
              processed, ppos, cpos, mpos>>

\* the threads that use the buffer
Threads == DOMAIN rpc

vars == <<variant, handle, ctor, probe, num_threads, workers_, nStarted, tasks_,
          queue_mutex_, stop_, jstop, active_tasks_, wstate, wtask, wdrain,
          witer, joined, pc, ctask, cidx, cafter, nextTask, taskFn, future,
          enqOrder, deqOrder, doneCount, execCount, threw, rejected,
          iterations_completed, shutdownDone,
          ringVars, pipeVars>>

workerVars == <<wstate, wtask, wdrain, witer>>
callerVars == <<pc, ctask, cidx, cafter>>
ghostVars  == <<enqOrder, deqOrder, doneCount, execCount, threw, rejected,
                iterations_completed, shutdownDone>>

\* ----------------------------------------------------------------- helpers
Range(s) == {s[i] : i \in 1..Len(s)}

IsPrefix(s, t) == Len(s) <= Len(t) /\ \A i \in 1..Len(s) : s[i] = t[i]

Live == 1..nStarted

\* variant: the argument is taken as it is
CoerceThreads_None(n) == n

\* constructor, lines 45-47 / 340-342: zero threads is coerced to one
CoerceThreads(n) == IF n = 0 THEN 1 ELSE n

\* std::future shared state
Pending     == [st |-> "pending", v |-> 0]
Value(x)    == [st |-> "value", v |-> x]
Error       == [st |-> "error", v |-> 0]
Interrupted == -1      \* sentinel returned by a token task that saw the stop
Completed   == 0       \* value returned by a token task that ran all iterations

\* arguments bound at submission t, and the callable's result on them
ArgsOf(t) == <<t, 10 * t>>

Invoke(args) == args[1] + args[2]

\* variant: every bound callable refers to the arguments of the first submission
ResultOf_SharedArgs(t) == Invoke(ArgsOf(1))

\* std::bind at lines 89-90 / 498-499 copies the submission's own arguments
ResultOf(t) == Invoke(ArgsOf(t))

Blocked == {w \in Live : wstate[w] = "blocked"}

\* variant: the notification reaches no waiting worker
NotifyAll_None(ws) == ws

\* condition_.notify_all(): every worker waiting on condition_ is made runnable
NotifyAll(ws) == [w \in Workers |-> IF ws[w] = "blocked" THEN "acquire" ELSE ws[w]]

\* done_condition_.notify_all()
NotifyDone(p) == [c \in Callers |-> IF p[c] = "wfa_blocked" THEN "wfa" ELSE p[c]]

\* every std::future as Submit returns it: valid, get() not yet called
NoHandles == [t \in TaskIds |-> [valid |-> TRUE, gets |-> <<>>]]

\* no introspection call has been made
NoProbe == [fn |-> "none", locked |-> FALSE, val |-> 0, field |-> 0]

\* ------------------------------------------------------------------- Init
\* The members as the initialiser lists (lines 44 / 337-338) and the default
\* constructors leave them; no caller has made a call, no task exists.
Fresh ==
  /\ probe = NoProbe
  /\ handle = NoHandles
  /\ tasks_ = <<>>
  /\ queue_mutex_ = Free
  /\ stop_ = FALSE
  /\ jstop = [w \in Workers |-> FALSE]
  /\ active_tasks_ = 0
  /\ wtask = [w \in Workers |-> 0]
  /\ wdrain = [w \in Workers |-> FALSE]
  /\ witer = [w \in Workers |-> 0]
  /\ joined = [w \in Workers |-> 0]
  /\ pc = [c \in Callers |-> "idle"]
  /\ ctask = [c \in Callers |-> 0]
  /\ cidx = [c \in Callers |-> 0]
  /\ cafter = [c \in Callers |-> FALSE]
  /\ nextTask = 0
  /\ taskFn = [t \in TaskIds |-> "none"]
  /\ future = [t \in TaskIds |-> Pending]
  /\ enqOrder = <<>>
  /\ deqOrder = <<>>
  /\ doneCount = [t \in TaskIds |-> 0]
  /\ execCount = [t \in TaskIds |-> 0]
  /\ threw = {}
  /\ rejected = {}
  /\ iterations_completed = [t \in TaskIds |-> 0]
  /\ shutdownDone = FALSE

\* no ImageProducer or ImageConsumer exists
NoPipe ==
  /\ total_frames = 0
  /\ produced_count_ = 0
  /\ running_ = <<>>
  /\ consumed_count_ = <<>>
  /\ image = <<>>
  /\ processed = <<>>
  /\ ppos = "none"
  /\ cpos = <<>>
  /\ mpos = "none"

\* no ThreadSafeRingBuffer exists in a program that only uses the pool
NoRing ==
  /\ NoPipe
  /\ Capacity = 0
  /\ buffer_ = <<>>
  /\ head_ = 0
  /\ tail_ = 0
  /\ count_ = 0
  /\ stopped_ = FALSE
  /\ rpc = [th \in 1..NumThreads |-> "idle"]
  /\ ritem = [th \in 1..NumThreads |-> 0]
  /\ rtimed = [th \in 1..NumThreads |-> FALSE]
  /\ nPush = 0
  /\ pushed = <<>>
  /\ popped = <<>>
  /\ wasReset = FALSE

Init ==
  /\ variant \in Variants
  /\ num_threads \in 0..MaxWorkers
  /\ ctor = "done"
  /\ nStarted = CoerceThreads(num_threads)
  /\ workers_ = [i \in 1..CoerceThreads(num_threads) |-> i]
  /\ wstate = [w \in Workers |->
                 IF w > nStarted THEN "none" ELSE "acquire"]
  /\ Fresh
  /\ NoRing

\* --------------------------------------------------------- code fragments
\* variant: the newest task is taken instead of the oldest
Front_Back(q) == q[Len(q)]

\* tasks_.front(), lines 192 / 787 / 843
Front(q) == Head(q)

\* variant: the task is left in the queue after it was taken
Pop_Kept(q) == q

\* tasks_.pop(), lines 193 / 788 / 844
Pop(q) == Tail(q)

\* variant: the wait never blocks
WorkAvailable_Always(stopped, q) == TRUE

\* cpp11 wait predicate, lines 182-184
WorkAvailable(stopped, q) == stopped \/ q # <<>>

\* variant: the drain loop is left at once
DrainDone_AtOnce(q) == TRUE

\* the test of the cpp20 drain loop, lines 840-841: tasks_.empty()
DrainDone(q) == q = <<>>

\* variant: a stopped worker leaves whatever is queued
ExitNow_StopOnly(stopped, q) == stopped

\* cpp11 exit test, line 187; cpp20 exit test, line 777
ExitNow(stopped, q) == stopped /\ q = <<>>

\* variant: the predicate forgets the tasks in flight
Drained_QueueOnly(q, active) == q = <<>>

\* predicate of WaitForAll, lines 160-162 / 702-704, and the phase C test
Drained(q, active) == q = <<>> /\ active = 0

\* variant: Submit never looks at the stop flag
SubmitRejects_Never(stopped) == FALSE

\* the stop check of Submit, lines 100 / 517 / 593
SubmitRejects(stopped) == stopped

\* the stop check of cpp11 Shutdown, line 124
AlreadyStopped(stopped) == stopped

\* std::thread::joinable() as tested at line 135
Joinable(joins) == joins = 0

\* variant: the joined threads stay in workers_
Cleared_Kept(v) == v

\* workers_ after cpp20 Shutdown, line 645
Cleared(v) == <<>>

\* variant: an exception of the body leaves WorkerLoop and ends the thread
AfterTask_Escapes(raised) == IF raised THEN "terminated" ELSE "dec"

\* where the worker continues after task(), lines 200-203 / 809-814:
\* packaged_task stores an exception of the body in the shared state, so
\* task() returns normally into WorkerLoop whether or not the body raised
AfterTask(raised) == "dec"

\* what packaged_task stores when the bound callable has run
Outcome(raised, t) == IF raised THEN Error ELSE Value(ResultOf(t))

\* a packaged_task can make its shared state ready only once
Resolve(f, t, r) == IF f[t] = Pending THEN [f EXCEPT ![t] = r] ELSE f

\* ---------------------------------------------------------------- workers
\* the stop flag a worker's wait and exit test read: cpp11 stop_, cpp20 the
\* token std::jthread passed to the lambda (lines 366-368), which is the
\* jthread's own and not stop_source_
WorkerStop(w) == IF variant = "cpp11" THEN stop_ ELSE jstop[w]

\* the worker has the lock and must block: cpp11 lines 182-184 with a false
\* predicate; cpp20 lines 772-774 with an empty queue and no stop request
WorkerWait(w) ==
  /\ wstate[w] = "acquire"
  /\ queue_mutex_ = Free
  /\ ~wdrain[w]
  /\ ~WorkAvailable(WorkerStop(w), tasks_)
  /\ wstate' = [wstate EXCEPT ![w] = "blocked"]
  /\ UNCHANGED <<pipeVars, ringVars, variant, handle, ctor, probe, num_threads,
                 workers_, nStarted, tasks_, queue_mutex_, stop_,
                 jstop, active_tasks_, wtask, wdrain, witer, joined,
                 callerVars, nextTask, taskFn, future, ghostVars>>

\* return at line 188 / 778, break at line 841 (the drain loop tests only
\* tasks_.empty())
WorkerExit(w) ==
  /\ wstate[w] = "acquire"
  /\ queue_mutex_ = Free
  /\ IF wdrain[w] THEN DrainDone(tasks_) ELSE ExitNow(WorkerStop(w), tasks_)
  /\ wstate' = [wstate EXCEPT ![w] = "terminated"]
  /\ UNCHANGED <<pipeVars, ringVars, variant, handle, ctor, probe, num_threads,
                 workers_, nStarted, tasks_, queue_mutex_, stop_,
                 jstop, active_tasks_, wtask, wdrain, witer, joined,
                 callerVars, nextTask, taskFn, future, ghostVars>>

\* variant: the dequeue does not count the task
Incremented_Not(n) == n

\* ++active_tasks_, lines 196 / 791 / 845
Incremented(n) == n + 1

\* variant: the worker keeps the lock while it runs the task
UnlockBeforeTask_Held(w) == 0 - w

\* lines 197 / 792 / 846: the scope of the unique_lock ends before task()
UnlockBeforeTask(w) == Free

\* lines 192-197 / 787-792 / 843-846: move the front task out, pop, ++active,
\* unlock
WorkerDequeue(w) ==
  /\ wstate[w] = "acquire"
  /\ queue_mutex_ = Free
  /\ IF wdrain[w] THEN ~DrainDone(tasks_)
     ELSE /\ WorkAvailable(WorkerStop(w), tasks_)
          /\ ~ExitNow(WorkerStop(w), tasks_)
  /\ tasks_ # <<>>
  /\ wtask' = [wtask EXCEPT ![w] = Front(tasks_)]
  /\ tasks_' = Pop(tasks_)
  /\ active_tasks_' = Incremented(active_tasks_)
  /\ wstate' = [wstate EXCEPT ![w] = "exec"]
  /\ witer' = [witer EXCEPT ![w] = 0]
  /\ deqOrder' = Append(deqOrder, Front(tasks_))
  /\ queue_mutex_' = UnlockBeforeTask(w)
  /\ UNCHANGED <<pipeVars, ringVars, variant, handle, ctor, probe, num_threads,
                 workers_, nStarted, stop_, jstop,
                 wdrain, joined, callerVars, nextTask, taskFn, future,
                 enqOrder, doneCount, execCount, threw, rejected,
                 iterations_completed, shutdownDone>>

\* task() at lines 200 / 809 / 848 for a task submitted with Submit: the
\* caller's callable runs on its bound arguments and returns or raises
WorkerRun(w) ==
  /\ wstate[w] = "exec"
  /\ taskFn[wtask[w]] = "plain"
  /\ \E raised \in BOOLEAN :
       LET t == wtask[w] IN
         /\ threw' = IF raised THEN threw \cup {t} ELSE threw
         /\ future' = Resolve(future, t, Outcome(raised, t))
         /\ execCount' = [execCount EXCEPT ![t] = @ + 1]
         /\ doneCount' = [doneCount EXCEPT ![t] = @ + 1]
         /\ wstate' = [wstate EXCEPT ![w] = AfterTask(raised)]
  /\ UNCHANGED <<pipeVars, ringVars, variant, handle, ctor, probe, num_threads,
                 workers_, nStarted, tasks_, queue_mutex_, stop_,
                 jstop, active_tasks_, wtask, wdrain, witer, joined,
                 callerVars, nextTask, taskFn, enqOrder, deqOrder, rejected,
                 iterations_completed, shutdownDone>>

\* variant: the task is handed the token of the worker thread that runs it
TaskToken_Own(w) == jstop[w]

\* SubmitWithToken line 585: the user function is called with
\* stop_source_.get_token(), the token of the pool's own stop source
TaskToken(w) == stop_

\* task() for a task submitted with SubmitWithToken (lines 583-586): the
\* user function polls its token before each of its MaxIters iterations and
\* returns the sentinel as soon as the stop is seen (part_000 lines 306-321).
\* One step is one poll and, when the stop is not seen, the iteration after
\* it (++iterations_completed, part_000 line 317).
WorkerRunToken(w) ==
  /\ wstate[w] = "exec"
  /\ taskFn[wtask[w]] = "token"
  /\ LET t == wtask[w]
         seen == TaskToken(w)
         finished == seen \/ witer[w] + 1 = MaxIters
         result == IF seen THEN Interrupted ELSE Completed
     IN
       /\ execCount' = [execCount EXCEPT ![t] = IF witer[w] = 0 THEN @ + 1 ELSE @]
       /\ iterations_completed' =
            [iterations_completed EXCEPT ![t] = IF seen THEN @ ELSE @ + 1]
       /\ IF finished
          THEN /\ future' = Resolve(future, t, Value(result))
               /\ doneCount' = [doneCount EXCEPT ![t] = @ + 1]
               /\ wstate' = [wstate EXCEPT ![w] = AfterTask(FALSE)]
               /\ witer' = [witer EXCEPT ![w] = 0]
          ELSE /\ witer' = [witer EXCEPT ![w] = @ + 1]
               /\ UNCHANGED <<future, doneCount, wstate>>
  /\ UNCHANGED <<pipeVars, ringVars, variant, handle, ctor, probe, num_threads,
                 workers_, nStarted, tasks_, queue_mutex_, stop_,
                 jstop, active_tasks_, wtask, wdrain, joined, callerVars,
                 nextTask, taskFn, enqOrder, deqOrder, threw, rejected,
                 shutdownDone>>

\* --active_tasks_ at lines 203 / 814 / 850, outside the lock
WorkerDec(w) ==
  /\ wstate[w] = "dec"
  /\ active_tasks_' = active_tasks_ - 1
  /\ wstate' = [wstate EXCEPT ![w] = "notify"]
  /\ UNCHANGED <<pipeVars, ringVars, variant, handle, ctor, probe, num_threads,
                 workers_, nStarted, tasks_, queue_mutex_, stop_,
                 jstop, wtask, wdrain, witer, joined, callerVars, nextTask,
                 taskFn, future, ghostVars>>

\* phase C, lines 206-211 / 816-822 / 852-857, and back to the loop head.
\* cpp20 main loop: the loop condition at line 743 reads the jthread's own
\* stop token; when it is set the worker goes on in the drain loop (line 836)
WorkerNotifyDone(w) ==
  /\ wstate[w] = "notify"
  /\ queue_mutex_ = Free
  /\ pc' = IF Drained(tasks_, active_tasks_) THEN NotifyDone(pc) ELSE pc
  /\ wstate' = [wstate EXCEPT ![w] = "acquire"]
  /\ wtask' = [wtask EXCEPT ![w] = 0]
  /\ wdrain' = [wdrain EXCEPT ![w] = @ \/ (variant = "cpp20" /\ jstop[w])]
  /\ UNCHANGED <<pipeVars, ringVars, variant, handle, ctor, probe, num_threads,
                 workers_, nStarted, tasks_, queue_mutex_, stop_,
                 jstop, active_tasks_, witer, joined, ctask, cidx,
                 cafter, nextTask, taskFn, future, ghostVars>>

\* a wait on condition_ may return without a notification
SpuriousWake(w) ==
  /\ wstate[w] = "blocked"
  /\ wstate' = [wstate EXCEPT ![w] = "acquire"]
  /\ UNCHANGED <<pipeVars, ringVars, variant, handle, ctor, probe, num_threads,
                 workers_, nStarted, tasks_, queue_mutex_, stop_,
                 jstop, active_tasks_, wtask, wdrain, witer, joined,
                 callerVars, nextTask, taskFn, future, ghostVars>>

WorkerStep(w) ==
  \/ WorkerWait(w)
  \/ WorkerExit(w)
  \/ WorkerDequeue(w)
  \/ WorkerRun(w)
  \/ WorkerRunToken(w)
  \/ WorkerDec(w)
  \/ WorkerNotifyDone(w)

\* ---------------------------------------------------------------- callers
InShutdown(c) == pc[c] \in {"sd_begin", "sd_notify", "sd_loop", "sd_joinw"}

\* condition_.notify_one(): at most one waiting worker is made runnable
NotifyOne(ws, w) == [ws EXCEPT ![w] = "acquire"]

\* Submit lines 96-102 / 512-519, SubmitWithToken lines 590-595: take the
\* lock and test the stop flag; the exception leaves the lock released
SubmitCheck(c, kind) ==
  /\ pc[c] = "idle"
  /\ queue_mutex_ = Free
  /\ nextTask < MaxTasks
  /\ kind = "token" => variant = "cpp20"
  /\ nextTask' = nextTask + 1
  /\ taskFn' = [taskFn EXCEPT ![nextTask + 1] = kind]
  /\ IF SubmitRejects(stop_)
     THEN /\ rejected' = rejected \cup {nextTask + 1}
          /\ UNCHANGED <<queue_mutex_, pc, ctask>>
     ELSE /\ queue_mutex_' = c
          /\ pc' = [pc EXCEPT ![c] = "sub_enq"]
          /\ ctask' = [ctask EXCEPT ![c] = nextTask + 1]
          /\ UNCHANGED rejected
  /\ UNCHANGED <<pipeVars, ringVars, variant, handle, ctor, probe, num_threads,
                 workers_, nStarted, tasks_, stop_, jstop,
                 active_tasks_, workerVars, joined, cidx, cafter, future,
                 enqOrder, deqOrder, doneCount, execCount, threw,
                 iterations_completed, shutdownDone>>

\* variant: the accepted task is not queued
Emplace_Drop(q, t) == q

\* variant: the new task goes in front of the queued ones
Emplace_Front(q, t) == <<t>> \o q

\* std::queue::emplace, lines 105 / 523 / 597: the new task goes to the back
Emplace(q, t) == Append(q, t)

\* tasks_.emplace at lines 105 / 523 / 597, then the lock_guard is released
SubmitEnqueue(c) ==
  /\ pc[c] = "sub_enq"
  /\ queue_mutex_ = c
  /\ tasks_' = Emplace(tasks_, ctask[c])
  /\ enqOrder' = Append(enqOrder, ctask[c])
  /\ queue_mutex_' = Free
  /\ pc' = [pc EXCEPT ![c] = "sub_notify"]
  /\ UNCHANGED <<pipeVars, ringVars, variant, handle, ctor, probe, num_threads,
                 workers_, nStarted, stop_, jstop, active_tasks_,
                 workerVars, joined, ctask, cidx, cafter, nextTask, taskFn,
                 future, deqOrder, doneCount, execCount, threw, rejected,
                 iterations_completed, shutdownDone>>

\* condition_.notify_one() at lines 109 / 532 / 600, then return the future
SubmitNotify(c) ==
  /\ pc[c] = "sub_notify"
  /\ \/ \E w \in Blocked : wstate' = NotifyOne(wstate, w)
     \/ Blocked = {} /\ wstate' = wstate
  /\ pc' = [pc EXCEPT ![c] = "idle"]
  /\ ctask' = [ctask EXCEPT ![c] = 0]
  /\ UNCHANGED <<pipeVars, ringVars, variant, handle, ctor, probe, num_threads,
                 workers_, nStarted, tasks_, queue_mutex_, stop_,
                 jstop, active_tasks_, wtask, wdrain, witer, joined, cidx,
                 cafter, nextTask, taskFn, future, ghostVars>>

\* a caller enters Shutdown() (explicitly or from ~ThreadPool, lines 61-63 /
\* 392-394).  cpp11 callers may overlap; cpp20 Shutdown mutates workers_
\* without a lock, so its callers come one at a time
CallShutdown(c) ==
  /\ pc[c] = "idle"
  /\ variant = "cpp20" => \A d \in Callers : ~InShutdown(d)
  /\ pc' = [pc EXCEPT ![c] = "sd_begin"]
  /\ cafter' = [cafter EXCEPT ![c] = shutdownDone]
  /\ UNCHANGED <<pipeVars, ringVars, variant, handle, ctor, probe, num_threads,
                 workers_, nStarted, tasks_, queue_mutex_, stop_,
                 jstop, active_tasks_, workerVars, joined, ctask, cidx,
                 nextTask, taskFn, future, ghostVars>>

\* variant: a request on a stopped pool clears the flag
RequestStop_Toggle(stopped) == ~stopped

\* stop_ = true at line 127; stop_source_.request_stop() at line 636
RequestStop(stopped) == TRUE

\* cpp11 lines 122-128: under the lock, return if stopped, else set stop_
ShutdownLock(c) ==
  /\ variant = "cpp11"
  /\ pc[c] = "sd_begin"
  /\ queue_mutex_ = Free
  /\ IF AlreadyStopped(stop_)
     THEN /\ pc' = [pc EXCEPT ![c] = "idle"]
          /\ shutdownDone' = TRUE
          /\ cafter' = [cafter EXCEPT ![c] = FALSE]
          /\ stop_' = stop_
     ELSE /\ stop_' = RequestStop(stop_)
          /\ pc' = [pc EXCEPT ![c] = "sd_notify"]
          /\ UNCHANGED <<shutdownDone, cafter>>
  /\ UNCHANGED <<pipeVars, ringVars, variant, handle, ctor, probe, num_threads,
                 workers_, nStarted, tasks_, queue_mutex_, jstop,
                 active_tasks_, workerVars, joined, ctask, cidx,
                 nextTask, taskFn, future, enqOrder, deqOrder, doneCount,
                 execCount, threw, rejected, iterations_completed>>

\* cpp20 line 636: stop_source_.request_stop(), no lock taken
ShutdownRequestStop(c) ==
  /\ variant = "cpp20"
  /\ pc[c] = "sd_begin"
  /\ stop_' = RequestStop(stop_)
  /\ pc' = [pc EXCEPT ![c] = "sd_notify"]
  /\ UNCHANGED <<pipeVars, ringVars, variant, handle, ctor, probe, num_threads,
                 workers_, nStarted, tasks_, queue_mutex_, jstop,
                 active_tasks_, workerVars, joined, ctask, cidx, cafter,
                 nextTask, taskFn, future, ghostVars>>

\* condition_.notify_all() at lines 131 / 641
ShutdownNotify(c) ==
  /\ pc[c] = "sd_notify"
  /\ wstate' = NotifyAll(wstate)
  /\ pc' = [pc EXCEPT ![c] = "sd_loop"]
  /\ cidx' = [cidx EXCEPT ![c] = 1]
  /\ UNCHANGED <<pipeVars, ringVars, variant, handle, ctor, probe, num_threads,
                 workers_, nStarted, tasks_, queue_mutex_, stop_,
                 jstop, active_tasks_, wtask, wdrain, witer, joined, ctask,
                 cafter, nextTask, taskFn, future, ghostVars>>

\* cpp11 lines 134-138: join the next worker if it is joinable
ShutdownJoin(c) ==
  /\ variant = "cpp11"
  /\ pc[c] = "sd_loop"
  /\ cidx[c] <= Len(workers_)
  /\ LET w == workers_[cidx[c]] IN
       IF Joinable(joined[w])
       THEN /\ wstate[w] = "terminated"
            /\ joined' = [joined EXCEPT ![w] = @ + 1]
       ELSE joined' = joined
  /\ cidx' = [cidx EXCEPT ![c] = @ + 1]
  /\ UNCHANGED <<pipeVars, ringVars, variant, handle, ctor, probe, num_threads,
                 workers_, nStarted, tasks_, queue_mutex_, stop_,
                 jstop, active_tasks_, workerVars, pc, ctask, cafter,
                 nextTask, taskFn, future, ghostVars>>

\* cpp20 line 645, workers_.clear() destroying the next jthread: its
\* destructor first calls request_stop() on the jthread's own stop source;
\* the stop callback of a wait in progress (line 772) notifies condition_
ShutdownStopWorker(c) ==
  /\ variant = "cpp20"
  /\ pc[c] = "sd_loop"
  /\ cidx[c] <= Len(workers_)
  /\ LET w == workers_[cidx[c]] IN
       /\ jstop' = [jstop EXCEPT ![w] = TRUE]
       /\ wstate' = IF wstate[w] = "blocked" THEN NotifyAll(wstate) ELSE wstate
  /\ pc' = [pc EXCEPT ![c] = "sd_joinw"]
  /\ UNCHANGED <<pipeVars, ringVars, variant, handle, ctor, probe, num_threads,
                 workers_, nStarted, tasks_, queue_mutex_, stop_,
                 active_tasks_, wtask, wdrain, witer, joined, ctask, cidx,
                 cafter, nextTask, taskFn, future, ghostVars>>

\* cpp20 line 645: the jthread destructor then joins the thread
ShutdownJoinWorker(c) ==
  /\ variant = "cpp20"
  /\ pc[c] = "sd_joinw"
  /\ LET w == workers_[cidx[c]] IN
       /\ wstate[w] = "terminated"
       /\ joined' = [joined EXCEPT ![w] = @ + 1]
  /\ cidx' = [cidx EXCEPT ![c] = @ + 1]
  /\ pc' = [pc EXCEPT ![c] = "sd_loop"]
  /\ UNCHANGED <<pipeVars, ringVars, variant, handle, ctor, probe, num_threads,
                 workers_, nStarted, tasks_, queue_mutex_, stop_,
                 jstop, active_tasks_, workerVars, ctask, cafter, nextTask,
                 taskFn, future, ghostVars>>

\* the join loop is over (line 139); cpp20: workers_ is now empty (line 645)
ShutdownReturn(c) ==
  /\ pc[c] = "sd_loop"
  /\ cidx[c] > Len(workers_)
  /\ workers_' = IF variant = "cpp20" THEN Cleared(workers_) ELSE workers_
  /\ pc' = [pc EXCEPT ![c] = "idle"]
  /\ cidx' = [cidx EXCEPT ![c] = 0]
  /\ shutdownDone' = TRUE
  /\ cafter' = [cafter EXCEPT ![c] = FALSE]
  /\ UNCHANGED <<pipeVars, ringVars, variant, handle, ctor, probe, num_threads,
                 nStarted, tasks_, queue_mutex_, stop_, jstop,
                 active_tasks_, workerVars, joined, ctask, nextTask,
                 taskFn, future, enqOrder, deqOrder, doneCount, execCount,
                 threw, rejected, iterations_completed>>

\* a caller enters WaitForAll()
CallWaitForAll(c) ==
  /\ pc[c] = "idle"
  /\ pc' = [pc EXCEPT ![c] = "wfa"]
  /\ UNCHANGED <<pipeVars, ringVars, variant, handle, ctor, probe, num_threads,
                 workers_, nStarted, tasks_, queue_mutex_, stop_,
                 jstop, active_tasks_, workerVars, joined, ctask, cidx,
                 cafter, nextTask, taskFn, future, ghostVars>>

\* variant: the waiting caller keeps queue_mutex_ locked
WaitReleases_Held(c) == c

\* done_condition_.wait(lock, pred), lines 160 / 701: the wait unlocks
\* queue_mutex_ for as long as the caller is blocked
WaitReleases(c) == Free

\* lines 159-162 / 700-704: under the lock, return if drained, else wait
WaitForAllCheck(c) ==
  /\ pc[c] = "wfa"
  /\ queue_mutex_ = Free
  /\ pc' = [pc EXCEPT ![c] = IF Drained(tasks_, active_tasks_)
                             THEN "idle" ELSE "wfa_blocked"]
  /\ queue_mutex_' = IF Drained(tasks_, active_tasks_)
                     THEN Free ELSE WaitReleases(c)
  /\ UNCHANGED <<pipeVars, ringVars, variant, handle, ctor, probe, num_threads,
                 workers_, nStarted, tasks_, stop_,
                 jstop, active_tasks_, workerVars, joined, ctask, cidx,
                 cafter, nextTask, taskFn, future, ghostVars>>

\* a wait on done_condition_ may return without a notification
SpuriousWakeCaller(c) ==
  /\ pc[c] = "wfa_blocked"
  /\ pc' = [pc EXCEPT ![c] = "wfa"]
  /\ UNCHANGED <<pipeVars, ringVars, variant, handle, ctor, probe, num_threads,
                 workers_, nStarted, tasks_, queue_mutex_, stop_,
                 jstop, active_tasks_, workerVars, joined, ctask, cidx,
                 cafter, nextTask, taskFn, future, ghostVars>>

\* a caller inside a call takes its next step
CallerStep(c) ==
  \/ SubmitEnqueue(c)
  \/ SubmitNotify(c)
  \/ ShutdownLock(c)
  \/ ShutdownRequestStop(c)
  \/ ShutdownNotify(c)
  \/ ShutdownJoin(c)
  \/ ShutdownStopWorker(c)
  \/ ShutdownJoinWorker(c)
  \/ ShutdownReturn(c)
  \/ WaitForAllCheck(c)

\* a caller starts a call
CallerCall(c) ==
  \/ \E kind \in Kinds : SubmitCheck(c, kind)
  \/ CallShutdown(c)
  \/ CallWaitForAll(c)

Next ==
  \/ \E w \in Live : WorkerStep(w)
  \/ \E w \in Live : SpuriousWake(w)
  \/ \E c \in Callers : CallerStep(c)
  \/ \E c \in Callers : CallerCall(c)
  \/ \E c \in Callers : SpuriousWakeCaller(c)

Spec == Init /\ [][Next]_vars

TypeOK ==
  /\ variant \in Variants
  /\ nStarted \in 1..MaxWorkers
  /\ Range(tasks_) \subseteq TaskIds
  /\ queue_mutex_ \in {Free} \cup Callers
  /\ stop_ \in BOOLEAN
  /\ active_tasks_ \in 0..MaxWorkers
  /\ nextTask \in 0..MaxTasks

\* Scheduling: every thread that can take a step of the call or loop it is in
\* eventually takes it (OS threads run in parallel); nothing obliges a caller
\* to start a new call, and no wait is obliged to wake up spuriously.
FairSpec ==
  /\ Spec
  /\ \A w \in Workers : WF_vars(WorkerStep(w))
  /\ \A c \in Callers : WF_vars(CallerStep(c))

\* ------------------------------------------------------------ vocabulary
Occ(s, t) == Cardinality({i \in 1..Len(s) : s[i] = t})

Enqueued == Range(enqOrder)

\* submissions whose Submit has returned its future to the caller
Handed == Enqueued \ {ctask[c] : c \in Callers}

Finished(t) == future[t] # Pending

AllTerminated == \A w \in Live : wstate[w] = "terminated"

\* the step in which caller c returns from Shutdown()
ShutdownReturns(c) == InShutdown(c) /\ pc'[c] = "idle"

\* C1: when a Shutdown() call returns, every task whose Submit returned a
\* handle has finished executing and nothing is left in the queue.
C1_NoTaskLossOnShutdown ==
  [][\A c \in Callers : ShutdownReturns(c) =>
        /\ \A t \in Handed : future'[t] # Pending
        /\ tasks_' = <<>>]_vars

\* C2: every accepted task is enqueued once, dequeued by one worker at most
\* once, invoked at most once and its handle resolved at most once.
C2_ExactlyOnce ==
  \A t \in TaskIds :
    /\ Occ(enqOrder, t) <= 1
    /\ Occ(deqOrder, t) <= Occ(enqOrder, t)
    /\ execCount[t] <= Occ(deqOrder, t)
    /\ doneCount[t] <= execCount[t]
    /\ Finished(t) <=> doneCount[t] = 1
    /\ Cardinality({w \in Live : wtask[w] = t}) <= 1
    /\ (\E w \in Live : wtask[w] = t) => t \notin Range(tasks_)

C2_Witness ==
  /\ nStarted = 2
  /\ \A t \in 1..2 : execCount[t] = 1 /\ doneCount[t] = 1 /\ Finished(t)

\* C5: when a Shutdown() call returns, all workers have terminated, the
\* queue is empty and active_tasks_ is 0.
C5_ShutdownJoinsAll ==
  [][\A c \in Callers : ShutdownReturns(c) =>
        /\ \A w \in Live : wstate'[w] = "terminated"
        /\ tasks_' = <<>>
        /\ active_tasks_' = 0]_vars

\* C3: every accepted submission eventually resolves, and a resolved handle
\* carries the outcome of its own callable on its own arguments.  Accepted
\* submissions only accumulate and a resolved handle stays resolved (third
\* conjunct), so "infinitely often every accepted submission is resolved"
\* says that each one is eventually resolved.
C3_SubmissionCorrect ==
  /\ []<>(\A t \in Enqueued : Finished(t))
  /\ [](\A t \in TaskIds : Finished(t) =>
          /\ (taskFn[t] = "plain" /\ t \notin threw) =>
               future[t] = Value(Invoke(ArgsOf(t)))
          /\ t \in threw => future[t] = Error
          /\ taskFn[t] = "token" =>
               future[t] \in {Value(Completed), Value(Interrupted)})
  /\ [][/\ Enqueued \subseteq Range(enqOrder')
        /\ \A t \in TaskIds : Finished(t) => future'[t] = future[t]]_vars

C3_Witness ==
  /\ nStarted = 2
  /\ \E t, u \in TaskIds :
       /\ t # u
       /\ taskFn[t] = "plain" /\ taskFn[u] = "plain"
       /\ enqOrder = <<t, u>>
       /\ future[t] = Value(11 * t) /\ future[u] = Value(11 * u)
       /\ \E w, v \in Live :
            /\ wtask[w] = t /\ wstate[w] = "dec"
            /\ wtask[v] = u /\ wstate[v] = "notify"

\* C4: once a Shutdown() call has returned, a Submit or SubmitWithToken call
\* throws at once: nothing is enqueued, the queue, active_tasks_, the stop
\* flag and the lock are as before, the caller is not left inside the call,
\* and a rejected task is never queued, run or resolved.
C4_RejectionAfterStop ==
  /\ [][(shutdownDone /\ nextTask' # nextTask) =>
          /\ rejected' = rejected \cup {nextTask'}
          /\ pc' = pc
          /\ UNCHANGED <<tasks_, enqOrder, active_tasks_, stop_, queue_mutex_>>]_vars
  /\ [](\A t \in rejected :
          /\ t \notin Enqueued
          /\ t \notin Range(tasks_)
          /\ execCount[t] = 0
          /\ future[t] = Pending)

C4_Witness ==
  /\ shutdownDone
  /\ AllTerminated
  /\ Enqueued = {1}
  /\ Finished(1)
  /\ rejected = {2}

\* the shutdown has begun: a caller is at its first step or the flag is set
ShutdownEntered == stop_ \/ \E c \in Callers : pc[c] = "sd_begin"

\* C6: every Shutdown() call returns (each caller is outside Shutdown
\* infinitely often), and once a shutdown has begun every worker eventually
\* terminates (a begun shutdown stays begun, third conjunct).
C6_ShutdownTerminates ==
  /\ \A c \in Callers : []<>(~InShutdown(c))
  /\ []<>(ShutdownEntered => AllTerminated)
  /\ [][ShutdownEntered => ShutdownEntered']_vars

C6_Witness ==
  /\ shutdownDone
  /\ AllTerminated
  /\ nStarted = 2
  /\ \E t \in TaskIds : Finished(t)
  /\ \A c \in Callers : ~InShutdown(c)

\* a step taken by caller c itself
StepOf(c) == pc'[c] # pc[c] \/ cidx'[c] # cidx[c]

\* C7: a Shutdown() call begun after an earlier one returned changes neither
\* the stop flags, the queue, active_tasks_ nor the join count of any worker,
\* and it never blocks: at every point of the call its next step can be taken.
C7_IdempotentShutdown ==
  /\ [][\A c \in Callers : (InShutdown(c) /\ cafter[c] /\ StepOf(c)) =>
          UNCHANGED <<stop_, jstop, tasks_, active_tasks_, joined>>]_vars
  /\ [](\A c \in Callers : (InShutdown(c) /\ cafter[c])
          => ENABLED CallerStep(c))

C7_Witness ==
  \E c \in Callers :
    /\ cafter[c]
    /\ pc[c] = "sd_loop"
    /\ cidx[c] > Len(workers_)
    /\ \A w \in Live : joined[w] = 1

\* C8: at the step in which WaitForAll() finds its predicate true and
\* returns, the queue is empty, active_tasks_ is 0, no worker is inside a
\* task body, and every task enqueued so far (so every task whose Submit had
\* returned before the call) has finished.
C8_WaitForAllDrains ==
  [][\A c \in Callers : (pc[c] = "wfa" /\ pc'[c] = "idle") =>
        /\ tasks_ = <<>>
        /\ active_tasks_ = 0
        /\ \A w \in Live : wstate[w] # "exec"
        /\ \A t \in Enqueued : Finished(t)]_vars

C8_Witness ==
  /\ \E c \in Callers : pc[c] = "wfa" /\ queue_mutex_ = Free
  /\ Drained(tasks_, active_tasks_)
  /\ \A t \in 1..2 : Finished(t)
  /\ ~stop_

\* workers between the dequeue and the decrement of active_tasks_
InFlight == {w \in Live : wstate[w] \in {"exec", "dec"}}

\* C9: a task whose body raised has its own handle resolved with the error;
\* the worker goes on to the decrement exactly as after a normal return and
\* ends only through the exit test of its loop; active_tasks_ counts exactly
\* the tasks in flight; tasks that did not raise resolve with their value,
\* and every accepted task is still eventually resolved.
C9_ExceptionIsolation ==
  /\ [](\A t \in threw : future[t] = Error)
  /\ [](\A t \in TaskIds : (Finished(t) /\ t \notin threw) =>
          future[t] \in {Value(Invoke(ArgsOf(t))), Value(Completed),
                         Value(Interrupted)})
  /\ [](active_tasks_ = Cardinality(InFlight))
  /\ [][\A w \in Live :
          /\ (wstate[w] = "exec" /\ wstate'[w] # "exec") => wstate'[w] = "dec"
          /\ (wstate[w] # "terminated" /\ wstate'[w] = "terminated")
               => wstate[w] = "acquire"]_vars
  /\ []<>(threw # {} => \A t \in Enqueued : Finished(t))

C9_Witness ==
  /\ nStarted = 1
  /\ threw = {1}
  /\ future[1] = Error
  /\ future[2] = Value(22)
  /\ deqOrder = <<1, 2>>
  /\ wstate[1] = "blocked"
  /\ active_tasks_ = 0

\* C10: with one worker, tasks are taken from the queue and completed in
\* the order in which they were enqueued, also after the stop was requested:
\* the tasks started are always a prefix of the tasks enqueued, and the tasks
\* completed are always the tasks started, less at most the last one (a
\* completed task stays completed, so this fixes the order of completion).
C10_SingleWorkerFIFO ==
  nStarted = 1 =>
    /\ IsPrefix(deqOrder, enqOrder)
    /\ \A i \in 1..Len(deqOrder) : i < Len(deqOrder) => Finished(deqOrder[i])
    /\ \A t \in TaskIds : Finished(t) => t \in Range(deqOrder)

C10_Witness ==
  /\ nStarted = 1
  /\ stop_
  /\ wdrain[1]
  /\ wtask[1] = 2
  /\ wstate[1] = "dec"
  /\ enqOrder = <<1, 2>>
  /\ deqOrder = <<1, 2>>
  /\ Finished(1) /\ Finished(2)

\* C11: in the C++20 variant, a SubmitWithToken task that is executing with
\* a poll still ahead once Shutdown() has requested the stop sees the stop at
\* its next poll: it runs no further iteration, its handle resolves to the
\* interrupted sentinel, and it has completed fewer iterations than planned;
\* only a task that completed all planned iterations resolves normally.
C11_CooperativeCancel ==
  /\ [][\A w \in Live :
          (/\ wstate[w] = "exec"
           /\ taskFn[wtask[w]] = "token"
           /\ stop_
           /\ <<wstate[w], witer[w]>>' # <<wstate[w], witer[w]>>)
          => /\ wstate'[w] = "dec"
             /\ future'[wtask[w]] = Value(Interrupted)
             /\ iterations_completed'[wtask[w]] = iterations_completed[wtask[w]]
             /\ iterations_completed'[wtask[w]] < MaxIters]_vars
  /\ [](\A t \in TaskIds :
          /\ future[t] = Value(Interrupted) => iterations_completed[t] < MaxIters
          /\ (taskFn[t] = "token" /\ future[t] = Value(Completed))
               => iterations_completed[t] = MaxIters)

C11_Witness ==
  \E t \in TaskIds :
    /\ variant = "cpp20"
    /\ taskFn[t] = "token"
    /\ future[t] = Value(Interrupted)
    /\ iterations_completed[t] = 1
    /\ \E c \in Callers : InShutdown(c)

\* C12: a task that polls no token and is executing when Shutdown() is called
\* runs to completion: a worker inside a task body only stays there or goes
\* on to the decrement with the same task, the handle of a body that returns
\* holds its normal value, and no Shutdown() call returns while a worker is
\* still inside a task body.
C12_NeverPreempts ==
  /\ [][\A w \in Live : wstate[w] = "exec" =>
          /\ wstate'[w] \in {"exec", "dec"}
          /\ wtask'[w] = wtask[w]]_vars
  /\ [][\A w \in Live :
          (/\ wstate[w] = "exec" /\ wstate'[w] = "dec"
           /\ taskFn[wtask[w]] = "plain" /\ wtask[w] \notin threw')
          => future'[wtask[w]] = Value(Invoke(ArgsOf(wtask[w])))]_vars
  /\ [][\A c \in Callers : ShutdownReturns(c) =>
          \A w \in Live : wstate'[w] # "exec"]_vars

\* C13: Submit's check of the stopped flag and its enqueue form one step with
\* respect to Shutdown setting the flag: the flag does not change while a
\* Submit call stands between its check and its enqueue, and no step taken
\* with the flag already set makes the queue longer.
C13_SubmitAtomicWithStop ==
  /\ [][(\E c \in Callers : pc[c] = "sub_enq") => stop_' = stop_]_vars
  /\ [][stop_ => Len(tasks_') <= Len(tasks_)]_vars

\* GetThreadCount(), lines 144 / 656: workers_.size(), read without the lock
GetThreadCount == Len(workers_)

\* C14: a pool constructed with num_threads = 0 has exactly one worker, and
\* one constructed with n >= 1 has exactly n: that many WorkerLoop threads
\* were started, thread_count() reports that number on the constructed pool,
\* and the pool built from 0 rejects no submission before it is stopped.
C14_WorkerCountCoercion ==
  LET n == IF num_threads = 0 THEN 1 ELSE num_threads IN
    /\ nStarted = n
    /\ Cardinality({w \in Workers : wstate[w] # "none"}) = n
    /\ ~ShutdownEntered => GetThreadCount = n
    /\ (num_threads = 0 /\ rejected # {}) => stop_

C14_Witness ==
  /\ num_threads = 0
  /\ GetThreadCount = 1
  /\ ~ShutdownEntered
  /\ \E t \in TaskIds : future[t] = Value(ResultOf(t)) /\ execCount[t] = 1

\* C15: thread_count() returns the worker count fixed at construction in
\* every state of the pool, while Shutdown() is in progress and after it has
\* returned included.
C15_FixedThreadCount == GetThreadCount = CoerceThreads(num_threads)

\* ------------------------------------------------------ introspection calls
Getters == {"GetThreadCount", "GetPendingTaskCount", "GetActiveTaskCount",
            "IsStopped"}

\* GetPendingTaskCount(), lines 146-149 / 663-666: tasks_.size() under the lock
GetPendingTaskCount == Len(tasks_)

\* GetActiveTaskCount(), lines 151 / 672: one load of the atomic counter
GetActiveTaskCount == active_tasks_

\* IsStopped(), lines 153 / 678: one load of the atomic flag / stop state
IsStopped == IF stop_ THEN 1 ELSE 0

\* the member a getter reads, at its value in the current state
FieldOf(fn) ==
  CASE fn = "GetThreadCount"      -> GetThreadCount
    [] fn = "GetPendingTaskCount" -> GetPendingTaskCount
    [] fn = "GetActiveTaskCount"  -> GetActiveTaskCount
    [] fn = "IsStopped"           -> IsStopped

\* only GetPendingTaskCount constructs a lock_guard (lines 147 / 664)
TakesLock(fn) == fn = "GetPendingTaskCount"

\* cpp20 Shutdown is inside workers_.clear() (line 645), which takes no lock
InClear ==
  variant = "cpp20" /\ \E c \in Callers : pc[c] \in {"sd_loop", "sd_joinw"}

\* What a getter can return.  workers_.size() is a plain read of the vector:
\* while clear() is rewriting it the read is a data race, and returns the
\* size before or after the clear.
ReadOf(fn) ==
  IF fn = "GetThreadCount" /\ InClear
  THEN {0, Len(workers_)}
  ELSE {FieldOf(fn)}

\* a thread calls one of the four getters
GetterCall(fn) ==
  /\ TakesLock(fn) => queue_mutex_ = Free
  /\ \E v \in ReadOf(fn) :
       probe' = [fn |-> fn, locked |-> TakesLock(fn), val |-> v,
                 field |-> FieldOf(fn)]
  /\ UNCHANGED <<pipeVars, ringVars, variant,
                 handle, ctor, num_threads, workers_, nStarted, tasks_,
                 queue_mutex_, stop_, jstop, active_tasks_, workerVars,
                 joined, callerVars, nextTask, taskFn, future, ghostVars>>

ProbeNext ==
  \/ Next
  \/ \E fn \in Getters : GetterCall(fn)

\* the pool with threads that call the getters at any moment
ProbeSpec == Init /\ [][ProbeNext]_vars

\* C16: each of thread_count(), pending_count(), active_count() and
\* is_stopped() takes its value as a single read made while holding the queue
\* lock, whatever Submit, the workers and Shutdown are doing: every call was
\* made under queue_mutex_ and returned the value the member had.
C16_LockedSnapshots ==
  probe.fn # "none" => (probe.locked /\ probe.val = probe.field)

InWaitForAll(c) == pc[c] \in {"wfa", "wfa_blocked"}

\* C17: WaitForAll neither stops nor blocks the pool.  No step that moves a
\* caller into, within or out of WaitForAll() changes the queue, active_tasks_
\* or the stop flag; a caller blocked in WaitForAll() does not hold
\* queue_mutex_; and while it is blocked, unless another caller is inside
\* Submit's critical section, an idle caller's Submit on the unstopped pool can
\* go ahead and a worker at the head of its loop can dequeue a queued task.
C17_WaitForAllFrame ==
  /\ [][\A c \in Callers :
          ((InWaitForAll(c) \/ InWaitForAll(c)') /\ pc'[c] # pc[c])
          => UNCHANGED <<tasks_, active_tasks_, stop_>>]_vars
  /\ [](\A c \in Callers : pc[c] = "wfa_blocked" =>
          /\ queue_mutex_ # c
          /\ queue_mutex_ \in {Free, c} =>
               /\ \A d \in Callers \ {c} :
                    (pc[d] = "idle" /\ ~stop_ /\ nextTask < MaxTasks)
                    => ENABLED SubmitCheck(d, "plain")
               /\ \A w \in Live :
                    (wstate[w] = "acquire" /\ tasks_ # <<>>)
                    => ENABLED WorkerDequeue(w))

C17_Witness ==
  \E c, d \in Callers : \E w \in Live :
    /\ pc[c] = "wfa_blocked"
    /\ pc[d] = "sub_notify"
    /\ ctask[d] \in Range(tasks_)
    /\ ~stop_
    /\ wstate[w] = "exec"
    /\ wtask[w] # ctask[d]

\* ------------------------------------------------------------- constructor
\* The constructor entered with its argument, before the first emplace_back.
CtorInit ==
  /\ variant \in Variants
  /\ num_threads \in 0..MaxWorkers
  /\ ctor = "spawning"
  /\ nStarted = 0
  /\ workers_ = <<>>
  /\ wstate = [w \in Workers |-> "none"]
  /\ Fresh
  /\ NoRing

\* the loop of lines 51-53 / 346-369 has another thread to start
MoreToSpawn == Len(workers_) < CoerceThreads(num_threads)

\* workers_.emplace_back(...) succeeds: the new thread starts in WorkerLoop
CtorSpawn ==
  /\ ctor = "spawning"
  /\ MoreToSpawn
  /\ workers_' = Append(workers_, Len(workers_) + 1)
  /\ nStarted' = nStarted + 1
  /\ wstate' = [wstate EXCEPT ![Len(workers_) + 1] = "acquire"]
  /\ UNCHANGED <<pipeVars, ringVars, variant,
                 handle, ctor, probe, num_threads, tasks_, queue_mutex_,
                 stop_, jstop, active_tasks_, wtask, wdrain, witer, joined,
                 callerVars, nextTask, taskFn, future, ghostVars>>

\* How the constructor ends once emplace_back has thrown std::system_error.
\* Neither constructor has a try block, so the exception unwinds the members
\* in reverse order of declaration (lines 216-228 / 888-936): the condition
\* variables, the mutex and the queue are destroyed under the workers that
\* are using them, and workers_ goes last.  With no worker started the
\* exception simply leaves the constructor.  Otherwise destroying members in
\* use is undefined; beyond that, the std::thread destructor of a joinable
\* thread calls std::terminate, and the std::jthread destructor requests the
\* stop and joins.
UnwindOutcomes ==
  IF workers_ = <<>> THEN {"failed"}
  ELSE IF variant = "cpp11" THEN {"terminated", "undefined"}
  ELSE {"failed", "undefined"}

\* workers_.emplace_back(...) throws
CtorSpawnFails ==
  /\ ctor = "spawning"
  /\ MoreToSpawn
  /\ \E o \in UnwindOutcomes :
       /\ ctor' = o
       /\ IF o = "failed"
          THEN /\ wstate' = [w \in Workers |->
                               IF w \in Live THEN "terminated" ELSE wstate[w]]
               /\ joined' = [w \in Workers |->
                               IF w \in Live THEN 1 ELSE joined[w]]
               /\ jstop' = [w \in Workers |-> w \in Live]
          ELSE UNCHANGED <<wstate, joined, jstop>>
  /\ UNCHANGED <<pipeVars, ringVars, variant,
                 handle, probe, num_threads, workers_, nStarted, tasks_,
                 queue_mutex_, stop_, active_tasks_, wtask, wdrain, witer,
                 callerVars, nextTask, taskFn, future, ghostVars>>

\* the loop is over: the constructor returns the pool
CtorReturn ==
  /\ ctor = "spawning"
  /\ ~MoreToSpawn
  /\ ctor' = "done"
  /\ UNCHANGED <<pipeVars, ringVars, variant,
                 handle, probe, num_threads, workers_, nStarted, tasks_,
                 queue_mutex_, stop_, jstop, active_tasks_, workerVars,
                 joined, callerVars, nextTask, taskFn, future, ghostVars>>

CtorNext ==
  \/ CtorSpawn
  \/ CtorSpawnFails
  \/ CtorReturn
  \/ ctor = "spawning" /\ \E w \in Live : WorkerStep(w)
  \/ ctor = "done" /\ Next

\* the pool from the entry of its constructor on
CtorSpec == CtorInit /\ [][CtorNext]_vars

\* C18: if spawning a worker fails during construction, the constructor
\* fails with an error, the workers already started have been stopped and
\* joined, and no worker thread is left running.
C18_CtorFailureClean ==
  ctor \notin {"spawning", "done"} =>
    /\ ctor = "failed"
    /\ \A w \in Live : wstate[w] = "terminated" /\ joined[w] = 1

\* ------------------------------------------------ the handle Submit returns
\* std::future::get() on a handle whose valid() is false: the behaviour is
\* undefined; the library may throw std::future_error(no_state)
NoState   == [st |-> "no_state", v |-> 0]
Undefined == [st |-> "undefined", v |-> 0]

\* What a get() call returns.  Submit returns a std::future (lines 93, 111 /
\* 507, 534), not a std::shared_future: the first get() moves the result out
\* and leaves the handle invalid.
GetOutcomes(t) ==
  IF handle[t].valid THEN {future[t]} ELSE {NoState, Undefined}

\* the client calls get() on the handle of submission t
FutureGet(t) ==
  /\ t \in Handed
  /\ Len(handle[t].gets) < MaxGets
  /\ handle[t].valid => future[t] # Pending
  /\ \E r \in GetOutcomes(t) :
       handle' = [handle EXCEPT ![t] = [valid |-> FALSE,
                                        gets |-> Append(@.gets, r)]]
  /\ UNCHANGED <<pipeVars, ringVars, variant,
                 ctor, probe, num_threads, workers_, nStarted,
                 tasks_, queue_mutex_, stop_, jstop, active_tasks_,
                 workerVars, joined, callerVars, nextTask, taskFn, future,
                 ghostVars>>

HandleNext ==
  \/ Next
  \/ \E t \in TaskIds : FutureGet(t)

\* the pool with clients that read the handles of their submissions
HandleSpec == Init /\ [][HandleNext]_vars

\* C19: a second get() on the handle returned by Submit, made after the first
\* get() has returned, returns the same terminal result (value or error) as
\* the first.
C19_GetTwice ==
  \A t \in TaskIds :
    Len(handle[t].gets) >= 2 => handle[t].gets[2] = handle[t].gets[1]

\* ---------------------------------------------------- ThreadSafeRingBuffer
poolVars == <<variant, handle, ctor, probe, num_threads, workers_, nStarted,
              tasks_, queue_mutex_, stop_, jstop, active_tasks_, workerVars,
              joined, callerVars, nextTask, taskFn, future, ghostVars>>

\* a program that uses the ring buffer and no thread pool
NoPool ==
  /\ variant = "none"
  /\ num_threads = 0
  /\ ctor = "none"
  /\ nStarted = 0
  /\ workers_ = <<>>
  /\ wstate = [w \in Workers |-> "none"]
  /\ Fresh

\* constructor, line 146: head_(0), tail_(0), count_(0), stopped_(false)
RingInit ==
  /\ NoPool
  /\ NoPipe
  /\ Capacity \in 1..MaxCapacity
  /\ buffer_ = [i \in 0..(Capacity - 1) |-> 0]
  /\ head_ = 0
  /\ tail_ = 0
  /\ count_ = 0
  /\ stopped_ = FALSE
  /\ rpc = [th \in 1..NumThreads |-> "idle"]
  /\ ritem = [th \in 1..NumThreads |-> 0]
  /\ rtimed = [th \in 1..NumThreads |-> FALSE]
  /\ nPush = 0
  /\ pushed = <<>>
  /\ popped = <<>>
  /\ wasReset = FALSE

\* variant: the index is left where it was
Advance_Stay(i) == i

\* lines 195 / 234: (index + 1) % Capacity
Advance(i) == (i + 1) % Capacity

\* variant: Push never waits for room
NotFullOrStopped_Always == TRUE

\* Push's wait predicate, line 179
NotFullOrStopped == count_ < Capacity \/ stopped_

\* Pop's wait predicate, line 217
NotEmptyOrStopped == count_ > 0 \/ stopped_

\* the stored items, oldest first
Contents == [i \in 1..count_ |-> buffer_[(head_ + i - 1) % Capacity]]

WaitingPush == {th \in Threads : rpc[th] = "push_blocked"}
WaitingPop  == {th \in Threads : rpc[th] = "pop_blocked"}

\* a thread calls Push(item) or Push(item, timeout); items are numbered
CallPush(th, timed) ==
  /\ rpc[th] = "idle"
  /\ nPush < MaxPushes
  /\ nPush' = nPush + 1
  /\ ritem' = [ritem EXCEPT ![th] = nPush + 1]
  /\ rtimed' = [rtimed EXCEPT ![th] = timed]
  /\ rpc' = [rpc EXCEPT ![th] = "push"]
  /\ UNCHANGED <<poolVars, Capacity, buffer_, head_, tail_, count_, stopped_,
                 pushed, popped, wasReset>>

\* variant: a stopped buffer still accepts items
PushRefused_Never == FALSE

\* lines 189-191: a stopped buffer accepts nothing more
PushRefused == stopped_

\* lines 189-196, with mutex_ held and the predicate true: refuse when
\* stopped, else store the item, advance tail_ and count it
PushBody(th) ==
  IF PushRefused
  THEN /\ rpc' = [rpc EXCEPT ![th] = "idle"]
       /\ UNCHANGED <<buffer_, tail_, count_, pushed>>
  ELSE /\ buffer_' = [buffer_ EXCEPT ![tail_] = ritem[th]]
       /\ tail_' = Advance(tail_)
       /\ count_' = count_ + 1
       /\ pushed' = Append(pushed, ritem[th])
       /\ rpc' = [rpc EXCEPT ![th] = "push_notify"]

\* lines 176-187: lock, test the predicate, go on or start waiting
PushTry(th) ==
  /\ rpc[th] = "push"
  /\ IF NotFullOrStopped
     THEN PushBody(th)
     ELSE /\ rpc' = [rpc EXCEPT ![th] = "push_blocked"]
          /\ UNCHANGED <<buffer_, tail_, count_, pushed>>
  /\ ritem' = IF rpc'[th] = "push_blocked"
              THEN ritem ELSE [ritem EXCEPT ![th] = 0]
  /\ rtimed' = IF rpc'[th] = "push_blocked"
               THEN rtimed ELSE [rtimed EXCEPT ![th] = FALSE]
  /\ UNCHANGED <<poolVars, Capacity, head_, stopped_, nPush, popped,
                 wasReset>>

\* variant: a wait that ran out counts as satisfied
WaitFor_True(pred) == TRUE

\* lines 184 / 222: what wait_for returns when the time has run out, the
\* value of the predicate
WaitFor(pred) == pred

\* lines 184-186: wait_for runs out; it returns the predicate's value
PushTimeout(th) ==
  /\ rpc[th] = "push_blocked"
  /\ rtimed[th]
  /\ IF WaitFor(NotFullOrStopped)
     THEN PushBody(th)
     ELSE /\ rpc' = [rpc EXCEPT ![th] = "idle"]
          /\ UNCHANGED <<buffer_, tail_, count_, pushed>>
  /\ ritem' = IF rpc'[th] = "push_blocked"
              THEN ritem ELSE [ritem EXCEPT ![th] = 0]
  /\ rtimed' = IF rpc'[th] = "push_blocked"
               THEN rtimed ELSE [rtimed EXCEPT ![th] = FALSE]
  /\ UNCHANGED <<poolVars, Capacity, head_, stopped_, nPush, popped,
                 wasReset>>

\* cv.notify_one(): one of the waiting threads, if any, is made runnable
NotifyOneOf(waiting, to, p) ==
  IF waiting = {} THEN {p}
  ELSE {[p EXCEPT ![th] = to] : th \in waiting}

\* variant: only one of the waiting threads is made runnable
NotifyAllOf_One(waiting, to, p) ==
  IF waiting = {} THEN p
  ELSE [p EXCEPT ![CHOOSE th \in waiting : TRUE] = to]

\* cv.notify_all(): every waiting thread is made runnable
NotifyAllOf(waiting, to, p) ==
  [th \in Threads |-> IF th \in waiting THEN to ELSE p[th]]

\* lines 199-202: unlocked, not_empty_cv_.notify_one(), return true
PushNotify(th) ==
  /\ rpc[th] = "push_notify"
  /\ rpc' \in NotifyOneOf(WaitingPop, "pop", [rpc EXCEPT ![th] = "idle"])
  /\ UNCHANGED <<poolVars, Capacity, buffer_, head_, tail_, count_, stopped_,
                 ritem, rtimed, nPush, pushed, popped, wasReset>>

\* a thread calls Pop() or Pop(timeout)
CallPop(th, timed) ==
  /\ rpc[th] = "idle"
  /\ rtimed' = [rtimed EXCEPT ![th] = timed]
  /\ rpc' = [rpc EXCEPT ![th] = "pop"]
  /\ UNCHANGED <<poolVars, Capacity, buffer_, head_, tail_, count_, stopped_,
                 ritem, nPush, pushed, popped, wasReset>>

\* variant: Pop takes from a stopped buffer that is empty
NothingToTake_Never == FALSE

\* lines 228-230: the wait ended with the buffer empty (it was stopped)
NothingToTake == count_ = 0

\* lines 228-235, with mutex_ held and the predicate true: nothing to take
\* when empty, else move buffer_[head_] into the local item, advance head_
\* and count down
PopBody(th) ==
  IF NothingToTake
  THEN /\ rpc' = [rpc EXCEPT ![th] = "idle"]
       /\ UNCHANGED <<head_, count_, popped, ritem>>
  ELSE /\ ritem' = [ritem EXCEPT ![th] = buffer_[head_]]
       /\ popped' = Append(popped, buffer_[head_])
       /\ head_' = Advance(head_)
       /\ count_' = count_ - 1
       /\ rpc' = [rpc EXCEPT ![th] = "pop_notify"]

\* lines 214-225: lock, test the predicate, go on or start waiting
PopTry(th) ==
  /\ rpc[th] = "pop"
  /\ IF NotEmptyOrStopped
     THEN PopBody(th)
     ELSE /\ rpc' = [rpc EXCEPT ![th] = "pop_blocked"]
          /\ UNCHANGED <<head_, count_, popped, ritem>>
  /\ rtimed' = IF rpc'[th] = "pop_blocked"
               THEN rtimed ELSE [rtimed EXCEPT ![th] = FALSE]
  /\ UNCHANGED <<poolVars, Capacity, buffer_, tail_, stopped_, nPush, pushed,
                 wasReset>>

\* lines 222-224: wait_for runs out; it returns the predicate's value
PopTimeout(th) ==
  /\ rpc[th] = "pop_blocked"
  /\ rtimed[th]
  /\ IF WaitFor(NotEmptyOrStopped)
     THEN PopBody(th)
     ELSE /\ rpc' = [rpc EXCEPT ![th] = "idle"]
          /\ UNCHANGED <<head_, count_, popped, ritem>>
  /\ rtimed' = IF rpc'[th] = "pop_blocked"
               THEN rtimed ELSE [rtimed EXCEPT ![th] = FALSE]
  /\ UNCHANGED <<poolVars, Capacity, buffer_, tail_, stopped_, nPush, pushed,
                 wasReset>>

\* lines 238-241: unlocked, not_full_cv_.notify_one(), return the item
PopNotify(th) ==
  /\ rpc[th] = "pop_notify"
  /\ rpc' \in NotifyOneOf(WaitingPush, "push", [rpc EXCEPT ![th] = "idle"])
  /\ ritem' = [ritem EXCEPT ![th] = 0]
  /\ UNCHANGED <<poolVars, Capacity, buffer_, head_, tail_, count_, stopped_,
                 rtimed, nPush, pushed, popped, wasReset>>

\* a wait on either condition variable may return without a notification;
\* the predicate is then tested again
RingSpuriousWake(th) ==
  /\ rpc[th] \in {"push_blocked", "pop_blocked"}
  /\ rpc' = [rpc EXCEPT ![th] = IF @ = "push_blocked" THEN "push" ELSE "pop"]
  /\ UNCHANGED <<poolVars, Capacity, buffer_, head_, tail_, count_, stopped_,
                 ritem, rtimed, nPush, pushed, popped, wasReset>>

\* Stop(), lines 253-256: stopped_ = true under mutex_
CallStop(th) ==
  /\ rpc[th] = "idle"
  /\ stopped_' = TRUE
  /\ rpc' = [rpc EXCEPT ![th] = "stop_not_full"]
  /\ UNCHANGED <<poolVars, Capacity, buffer_, head_, tail_, count_, ritem,
                 rtimed, nPush, pushed, popped, wasReset>>

\* line 258: not_full_cv_.notify_all()
StopNotifyFull(th) ==
  /\ rpc[th] = "stop_not_full"
  /\ rpc' = NotifyAllOf(WaitingPush, "push",
                        [rpc EXCEPT ![th] = "stop_not_empty"])
  /\ UNCHANGED <<poolVars, Capacity, buffer_, head_, tail_, count_, stopped_,
                 ritem, rtimed, nPush, pushed, popped, wasReset>>

\* line 259: not_empty_cv_.notify_all(), return
StopNotifyEmpty(th) ==
  /\ rpc[th] = "stop_not_empty"
  /\ rpc' = NotifyAllOf(WaitingPop, "pop", [rpc EXCEPT ![th] = "idle"])
  /\ UNCHANGED <<poolVars, Capacity, buffer_, head_, tail_, count_, stopped_,
                 ritem, rtimed, nPush, pushed, popped, wasReset>>

\* Reset(), lines 263-269: under mutex_, indices and count to 0, not stopped;
\* the array is not touched and no condition variable is notified
Reset(th) ==
  /\ rpc[th] = "idle"
  /\ head_' = 0
  /\ tail_' = 0
  /\ count_' = 0
  /\ stopped_' = FALSE
  /\ wasReset' = TRUE
  /\ UNCHANGED <<poolVars, Capacity, buffer_, rpc, ritem, rtimed, nPush,
                 pushed, popped>>

\* a thread inside a call takes its next step
RingStep(th) ==
  \/ PushTry(th)
  \/ PushTimeout(th)
  \/ PushNotify(th)
  \/ PopTry(th)
  \/ PopTimeout(th)
  \/ PopNotify(th)
  \/ StopNotifyFull(th)
  \/ StopNotifyEmpty(th)

\* an idle thread makes a call
RingCall(th) ==
  \/ \E timed \in BOOLEAN : CallPush(th, timed)
  \/ \E timed \in BOOLEAN : CallPop(th, timed)
  \/ CallStop(th)
  \/ Reset(th)

RingNext ==
  \/ \E th \in Threads : RingStep(th) /\ UNCHANGED pipeVars
  \/ \E th \in Threads : RingCall(th) /\ UNCHANGED pipeVars
  \/ \E th \in Threads : RingSpuriousWake(th) /\ UNCHANGED pipeVars

RingSpec == RingInit /\ [][RingNext]_vars

\* C20: the values returned by successful Pop calls are the values accepted
\* by successful Push calls, in the order the pushes took effect, for every
\* Capacity and across wrap-around.  Every Push that takes effect puts its
\* item behind the stored ones and every Pop that takes effect returns the
\* oldest stored item; so, as long as Reset() has discarded nothing, the
\* accepted items are the returned items followed by the stored ones.
C20_RingFIFO ==
  /\ [][pushed' # pushed =>
          /\ Contents' = Append(Contents, pushed'[Len(pushed')])
          /\ popped' = popped]_vars
  /\ [][popped' # popped =>
          /\ Contents # <<>>
          /\ popped' = Append(popped, Head(Contents))
          /\ Contents' = Tail(Contents)
          /\ pushed' = pushed]_vars
  /\ [](~wasReset => pushed = popped \o Contents)

C20_Witness ==
  /\ Capacity = 2
  /\ ~wasReset
  /\ Len(popped) = 3
  /\ popped = pushed
  /\ popped # <<1, 2, 3>>
  /\ head_ = 1

\* threads inside a Push call / holding an item their Pop has yet to return
InPush  == {th \in Threads : rpc[th] \in {"push", "push_blocked", "push_notify"}}
Holding == {th \in Threads : rpc[th] = "pop_notify"}

\* C21: nothing is lost and nothing is duplicated.  No item is accepted
\* twice, none is handed out more often than it was accepted, every item a
\* Pop hands out is held by that one Pop call only, and (no Reset() having
\* discarded anything) the accepted items are the handed-out items plus the
\* stored ones; so once no Push is in progress and the buffer is empty, the
\* successful Pops are as many as the successful Pushes and returned the
\* same items.
C21_NoLossNoDuplicate ==
  /\ \A x \in 1..MaxPushes :
       /\ Occ(pushed, x) <= 1
       /\ Occ(popped, x) <= Occ(pushed, x)
  /\ \A th \in Holding :
       /\ ritem[th] \in Range(popped)
       /\ \A other \in Holding \ {th} : ritem[other] # ritem[th]
  /\ ~wasReset =>
       /\ Len(pushed) = Len(popped) + count_
       /\ (count_ = 0 /\ InPush = {}) =>
            /\ Len(popped) = Len(pushed)
            /\ Range(popped) = Range(pushed)

C21_Witness ==
  /\ ~wasReset
  /\ ~stopped_
  /\ \A th \in Threads : rpc[th] = "idle"
  /\ count_ = 0
  /\ Len(pushed) = MaxPushes
  /\ Range(popped) = 1..MaxPushes

\* items whose Push call has returned false
Refused ==
  {x \in 1..nPush :
     /\ x \notin Range(pushed)
     /\ \A th \in Threads :
          rpc[th] \in {"push", "push_blocked"} => ritem[th] # x}

\* thread th leaves the position it was in
Moves(th) == rpc'[th] # rpc[th]

\* C22: on a stopped buffer no step stores anything (buffer_, tail_ and the
\* accepted items stay as they are, count_ does not grow), a Push that gets
\* to test the flag returns false even when there is room, and a Pop that
\* gets to test the buffer takes the oldest stored item while there is one
\* and returns nullopt only when count_ is 0.
C22_StopSemantics ==
  /\ [][(stopped_ /\ stopped_') =>
          /\ buffer_' = buffer_
          /\ tail_' = tail_
          /\ pushed' = pushed
          /\ count_' <= count_]_vars
  /\ [][\A th \in Threads :
          (stopped_ /\ rpc[th] = "push" /\ Moves(th)) =>
            /\ rpc'[th] = "idle"
            /\ ritem[th] \in Refused'
            /\ UNCHANGED <<buffer_, head_, tail_, count_>>]_vars
  /\ [][\A th \in Threads :
          (stopped_ /\ rpc[th] = "pop" /\ Moves(th)) =>
            IF count_ > 0
            THEN /\ rpc'[th] = "pop_notify"
                 /\ ritem'[th] = Head(Contents)
                 /\ Contents' = Tail(Contents)
            ELSE /\ rpc'[th] = "idle"
                 /\ UNCHANGED <<buffer_, head_, tail_, count_>>]_vars

C22_Witness ==
  /\ stopped_
  /\ Capacity = 2
  /\ count_ = 1
  /\ Len(pushed) = 2
  /\ Refused = {3}
  /\ \E th \in Holding : ritem[th] = pushed[1]

\* --------------------------------------------- producer/consumer pipeline
\* TestProducerConsumer, lines 535-592: one ImageProducer and two
\* ImageConsumers on one buffer, driven by the main thread.
Producer  == 1
Consumers == {2, 3}
Main      == 4

\* lines 541-553: the buffer is built, both consumers and then the producer
\* are started (Start sets running_ and clears the counters before it
\* creates the thread); the main thread is about to join the producer
PipeInit ==
  /\ NoPool
  /\ Capacity \in 1..MaxCapacity
  /\ buffer_ = [i \in 0..(Capacity - 1) |-> 0]
  /\ head_ = 0
  /\ tail_ = 0
  /\ count_ = 0
  /\ stopped_ = FALSE
  /\ rpc = [th \in {Producer, Main} \cup Consumers |-> "idle"]
  /\ ritem = [th \in {Producer, Main} \cup Consumers |-> 0]
  /\ rtimed = [th \in {Producer, Main} \cup Consumers |-> FALSE]
  /\ nPush = 0
  /\ pushed = <<>>
  /\ popped = <<>>
  /\ wasReset = FALSE
  /\ total_frames \in 0..MaxPushes
  /\ produced_count_ = 0
  /\ running_ = [c \in Consumers |-> TRUE]
  /\ consumed_count_ = [c \in Consumers |-> 0]
  /\ image = [c \in Consumers |-> 0]
  /\ processed = [c \in Consumers |-> {}]
  /\ ppos = "loop"
  /\ cpos = [c \in Consumers |-> "loop"]
  /\ mpos = "join_producer"

\* a step inside the buffer call thread th is making
InCall(th) == RingStep(th) \/ RingSpuriousWake(th)

\* the call of th returns with this step
Returns(th) == rpc[th] # "idle" /\ rpc'[th] = "idle"

\* ProducerLoop, line 351: i < total_frames && running_ (the producer's
\* running_ is set by Start and never cleared), then Push(image) at line 358
ProducerTest ==
  /\ ppos = "loop"
  /\ IF nPush < total_frames
     THEN /\ CallPush(Producer, FALSE)
          /\ ppos' = "push"
     ELSE /\ ppos' = "done"
          /\ UNCHANGED <<poolVars, ringVars>>
  /\ UNCHANGED <<total_frames, produced_count_, running_, consumed_count_,
                 image, processed, cpos, mpos>>

\* inside Push; lines 358-371: true goes on to count the frame, false breaks
ProducerPush ==
  /\ ppos = "push"
  /\ InCall(Producer)
  /\ ppos' = IF ~Returns(Producer) THEN "push"
             ELSE IF rpc[Producer] = "push_notify" THEN "count" ELSE "done"
  /\ UNCHANGED <<total_frames, produced_count_, running_, consumed_count_,
                 image, processed, cpos, mpos>>

\* line 359: ++produced_count_ (the Size() read for the log line changes
\* nothing), then the next iteration
ProducerCount ==
  /\ ppos = "count"
  /\ produced_count_' = produced_count_ + 1
  /\ ppos' = "loop"
  /\ UNCHANGED <<poolVars, ringVars, total_frames, running_, consumed_count_,
                 image, processed, cpos, mpos>>

\* variant: the buffer always looks empty to a consumer
Empty_Always == TRUE

\* Empty(), lines 277-280: count_ == 0 under mutex_
Empty == count_ = 0

\* ConsumerLoop, line 449, first operand: running_; true enters the body,
\* which calls Pop(100ms) at line 451
ConsumerTest(c) ==
  /\ cpos[c] = "loop"
  /\ IF running_[c]
     THEN /\ CallPop(c, TRUE)
          /\ cpos' = [cpos EXCEPT ![c] = "pop"]
     ELSE /\ cpos' = [cpos EXCEPT ![c] = "empty"]
          /\ UNCHANGED <<poolVars, ringVars>>
  /\ UNCHANGED <<total_frames, produced_count_, running_, consumed_count_,
                 image, processed, ppos, mpos>>

\* line 449, second operand: !buffer_.Empty(); false leaves the loop
ConsumerEmpty(c) ==
  /\ cpos[c] = "empty"
  /\ IF ~Empty
     THEN /\ CallPop(c, TRUE)
          /\ cpos' = [cpos EXCEPT ![c] = "pop"]
     ELSE /\ cpos' = [cpos EXCEPT ![c] = "done"]
          /\ UNCHANGED <<poolVars, ringVars>>
  /\ UNCHANGED <<total_frames, produced_count_, running_, consumed_count_,
                 image, processed, ppos, mpos>>

\* inside Pop; line 453: a value is processed, nullopt goes round the loop
ConsumerPop(c) ==
  /\ cpos[c] = "pop"
  /\ InCall(c)
  /\ IF Returns(c) /\ rpc[c] = "pop_notify"
     THEN /\ image' = [image EXCEPT ![c] = ritem[c]]
          /\ cpos' = [cpos EXCEPT ![c] = "process"]
     ELSE /\ cpos' = [cpos EXCEPT ![c] = IF Returns(c) THEN "loop" ELSE "pop"]
          /\ UNCHANGED image
  /\ UNCHANGED <<total_frames, produced_count_, running_, consumed_count_,
                 processed, ppos, mpos>>

\* lines 453-467: the frame is processed and ++consumed_count_
ConsumerProcess(c) ==
  /\ cpos[c] = "process"
  /\ consumed_count_' = [consumed_count_ EXCEPT ![c] = @ + 1]
  /\ processed' = [processed EXCEPT ![c] = @ \cup {image[c]}]
  /\ image' = [image EXCEPT ![c] = 0]
  /\ cpos' = [cpos EXCEPT ![c] = "loop"]
  /\ UNCHANGED <<poolVars, ringVars, total_frames, produced_count_, running_,
                 ppos, mpos>>

\* line 556: producer.Join() returns once ProducerLoop has returned
MainJoinProducer ==
  /\ mpos = "join_producer"
  /\ ppos = "done"
  /\ mpos' = "stop_buffer"
  /\ UNCHANGED <<poolVars, ringVars, total_frames, produced_count_, running_,
                 consumed_count_, image, processed, ppos, cpos>>

\* line 562: buffer.Stop()
MainStopBuffer ==
  /\ mpos = "stop_buffer"
  /\ CallStop(Main)
  /\ mpos' = "in_stop"
  /\ UNCHANGED <<total_frames, produced_count_, running_, consumed_count_,
                 image, processed, ppos, cpos>>

\* inside Stop(): the two notify_all calls
MainInStop ==
  /\ mpos = "in_stop"
  /\ RingStep(Main)
  /\ mpos' = IF Returns(Main) THEN "stop_consumers" ELSE "in_stop"
  /\ UNCHANGED <<total_frames, produced_count_, running_, consumed_count_,
                 image, processed, ppos, cpos>>

\* the consumers whose Stop() has not been called
Running == {c \in Consumers : running_[c]}

\* lines 563-564: consumer1.Stop(), consumer2.Stop(): running_ = false
MainStopConsumer ==
  /\ mpos = "stop_consumers"
  /\ \E c \in Running :
       /\ \A d \in Running : c <= d
       /\ running_' = [running_ EXCEPT ![c] = FALSE]
       /\ mpos' = IF Running = {c} THEN "join_consumers" ELSE "stop_consumers"
  /\ UNCHANGED <<poolVars, ringVars, total_frames, produced_count_,
                 consumed_count_, image, processed, ppos, cpos>>

\* lines 567-568: consumer1.Join(), consumer2.Join(); the counters are read
\* afterwards, lines 571-573
MainJoinConsumers ==
  /\ mpos = "join_consumers"
  /\ \A c \in Consumers : cpos[c] = "done"
  /\ mpos' = "summary"
  /\ UNCHANGED <<poolVars, ringVars, total_frames, produced_count_, running_,
                 consumed_count_, image, processed, ppos, cpos>>

ProducerStep == ProducerTest \/ ProducerPush \/ ProducerCount

ConsumerStep(c) ==
  \/ ConsumerTest(c)
  \/ ConsumerEmpty(c)
  \/ ConsumerPop(c)
  \/ ConsumerProcess(c)

MainStep ==
  \/ MainJoinProducer
  \/ MainStopBuffer
  \/ MainInStop
  \/ MainStopConsumer
  \/ MainJoinConsumers

PipeNext ==
  \/ ProducerStep
  \/ \E c \in Consumers : ConsumerStep(c)
  \/ MainStep

PipeSpec == PipeInit /\ [][PipeNext]_vars

\* a step a thread takes without waiting for another thread: everything
\* but the spurious wake-up of a blocked wait
Progress(th) ==
  /\ \/ th = Producer /\ ProducerStep
     \/ th \in Consumers /\ ConsumerStep(th)
     \/ th = Main /\ MainStep
  /\ ~RingSpuriousWake(th)

\* every thread that can take a step is scheduled, and the timer of a timed
\* wait runs out
PipeFairSpec ==
  /\ PipeSpec
  /\ \A th \in {Producer, Main} \cup Consumers : WF_vars(Progress(th))

\* the producer has finished and buffer.Stop() and both consumers' Stop()
\* have been called
AllStopped ==
  /\ ppos = "done"
  /\ mpos \in {"join_consumers", "summary"}

ConsumersDone == \A c \in Consumers : cpos[c] = "done"

\* C23: once the producer has finished and buffer.Stop() and each consumer's
\* Stop() have been called, both consumer threads terminate; and once they
\* have, the consumed counts add up to the produced count and every produced
\* frame has been processed by exactly one consumer.
C23_PipelineComplete ==
  /\ AllStopped ~> ConsumersDone
  /\ [](ConsumersDone =>
          /\ AllStopped
          /\ produced_count_ = Len(pushed)
          /\ \A c \in Consumers : consumed_count_[c] = Cardinality(processed[c])
          /\ \A c, d \in Consumers :
               c # d => processed[c] \cap processed[d] = {}
          /\ UNION {processed[c] : c \in Consumers} = 1..produced_count_
          /\ (LET Sum[S \in SUBSET Consumers] ==
                    IF S = {} THEN 0
                    ELSE LET c == CHOOSE x \in S : TRUE
                         IN consumed_count_[c] + Sum[S \ {c}]
              IN Sum[Consumers]) = produced_count_)

C23_Witness ==
  /\ mpos = "summary"
  /\ produced_count_ = MaxPushes
  /\ \A c \in Consumers : consumed_count_[c] > 0

\* the buffer is not stopped and th is inside a Pop that finds it empty
PopFindsEmpty(th) ==
  /\ rpc[th] \in {"pop", "pop_blocked"}
  /\ count_ = 0
  /\ ~stopped_

\* the buffer is not stopped and th is inside a Push that finds it full
PushFindsFull(th) ==
  /\ rpc[th] \in {"push", "push_blocked"}
  /\ count_ = Capacity
  /\ ~stopped_

\* C24: a Pop that finds the buffer empty and not stopped takes nothing, and
\* it returns (nullopt) only if it was given a finite timeout; a Push that
\* finds the buffer full and not stopped stores nothing, and it returns
\* (false) only if it was given a finite timeout; either way buffer_, head_,
\* tail_ and count_ stay as they are.  While such a timed call waits, its
\* time can run out.
C24_Timeouts ==
  /\ [][\A th \in Threads :
          (PopFindsEmpty(th) /\ Moves(th)) =>
            /\ rpc'[th] \in {"pop", "pop_blocked"} \cup
                            (IF rtimed[th] THEN {"idle"} ELSE {})
            /\ UNCHANGED <<buffer_, head_, tail_, count_, popped>>]_vars
  /\ [][\A th \in Threads :
          (PushFindsFull(th) /\ Moves(th)) =>
            /\ rpc'[th] \in {"push", "push_blocked"} \cup
                            (IF rtimed[th] THEN {"idle"} ELSE {})
            /\ rpc'[th] = "idle" => ritem[th] \in Refused'
            /\ UNCHANGED <<buffer_, head_, tail_, count_, pushed>>]_vars
  /\ [](\A th \in Threads :
          /\ (PopFindsEmpty(th) /\ rpc[th] = "pop_blocked" /\ rtimed[th])
               => ENABLED (PopTimeout(th) /\ rpc'[th] = "idle")
          /\ (PushFindsFull(th) /\ rpc[th] = "push_blocked" /\ rtimed[th])
               => ENABLED (PushTimeout(th) /\ rpc'[th] = "idle"))

\* the end of TestTimeout: a full buffer that was never stopped, nothing
\* popped, the third Push refused
C24_Witness ==
  /\ ~stopped_
  /\ ~wasReset
  /\ Capacity = 2
  /\ count_ = Capacity
  /\ popped = <<>>
  /\ Refused = {3}
  /\ \A th \in Threads : rpc[th] = "idle"

\* the workers inside a task body
Executing == {w \in Live : wstate[w] = "exec"}

\* the locked step a worker at the head of its loop takes next
WorkerLocked(w) == WorkerWait(w) \/ WorkerExit(w) \/ WorkerDequeue(w)

\* C25: queue_mutex_ is held across steps only by a caller inside Submit's
\* critical section: never by a worker that is running a task body and never
\* by a caller that Shutdown has brought to its join loop.  So while a worker
\* is executing, a free mutex can be taken by an idle submitter and by any
\* worker at the head of its loop, and a held one is released by its holder's
\* next step.
C25_TasksRunUnlocked ==
  [](/\ queue_mutex_ \in {Free} \cup {c \in Callers : pc[c] = "sub_enq"}
     /\ \A c \in Callers :
          pc[c] \in {"sd_notify", "sd_loop", "sd_joinw"} => queue_mutex_ # c
     /\ Executing # {} =>
          IF queue_mutex_ = Free
          THEN /\ \A c \in Callers :
                    (pc[c] = "idle" /\ nextTask < MaxTasks)
                      => ENABLED SubmitCheck(c, "plain")
               /\ \A v \in Live :
                    wstate[v] = "acquire" => ENABLED WorkerLocked(v)
          ELSE ENABLED SubmitEnqueue(queue_mutex_))

\* two workers are inside task bodies at the same time
C25_Witness ==
  /\ Cardinality(Executing) = 2
  /\ \A w, v \in Executing : w # v => wtask[w] # wtask[v]

\* the workers whose WorkerLoop has returned
Terminated == {w \in Live : wstate[w] = "terminated"}

\* worker w returns from WorkerLoop with this step
Terminates(w) == wstate[w] # "terminated" /\ wstate'[w] = "terminated"

\* C26: a worker returns from its loop only in a locked step in which the
\* stop it waits on has been requested and tasks_ is empty; the pool is
\* stopped whenever some worker has terminated; and from the first
\* termination on the queue is empty and stays empty: no task is queued and
\* no Submit is about to enqueue one.
C26_WorkerExit ==
  /\ [][\A w \in Live :
          Terminates(w) =>
            /\ wstate[w] = "acquire"
            /\ queue_mutex_ = Free
            /\ WorkerStop(w)
            /\ tasks_ = <<>>
            /\ UNCHANGED <<tasks_, queue_mutex_>>]_vars
  /\ [](Terminated # {} =>
          /\ stop_
          /\ tasks_ = <<>>
          /\ \A c \in Callers : pc[c] # "sub_enq")

\* one worker has returned from its loop while another is still inside a
\* task body
C26_Witness ==
  /\ Terminated # {}
  /\ Executing # {}

\* C27: every caller inside WaitForAll() eventually returns from it; a caller
\* is never left blocked on a drained pool without a worker on its way to the
\* notification; the worker's phase C runs with the lock taken and, when it
\* finds the pool drained, wakes every blocked caller; and a WaitForAll()
\* that evaluates its predicate on a drained pool, or after a Shutdown()
\* call has returned, returns without blocking.
C27_WaitForAllReleased ==
  /\ \A c \in Callers : InWaitForAll(c) ~> ~InWaitForAll(c)
  /\ [](\A c \in Callers :
          (pc[c] = "wfa_blocked" /\ Drained(tasks_, active_tasks_))
            => \E w \in Live : wstate[w] = "notify")
  /\ [][\A w \in Live :
          (wstate[w] = "notify" /\ wstate'[w] # "notify") =>
            /\ queue_mutex_ = Free
            /\ Drained(tasks_, active_tasks_) =>
                 \A c \in Callers : pc[c] = "wfa_blocked" => pc'[c] = "wfa"]_vars
  /\ [][\A c \in Callers :
          (pc[c] = "wfa" /\ StepOf(c)
           /\ (Drained(tasks_, active_tasks_) \/ shutdownDone))
            => pc'[c] = "idle"]_vars

\* C28: for every number of workers the tasks dequeued so far are, in order,
\* the first tasks enqueued and tasks_ holds the rest in enqueue order; each
\* dequeue, before or after the stop request, takes the task at the front.
\* Nothing of the kind is claimed for the order of completion.
C28_StrictFIFODequeue ==
  /\ [](/\ IsPrefix(deqOrder, enqOrder)
        /\ enqOrder = deqOrder \o tasks_)
  /\ [][deqOrder' # deqOrder =>
          /\ tasks_ # <<>>
          /\ deqOrder' = Append(deqOrder, Head(tasks_))
          /\ tasks_' = Tail(tasks_)]_vars

\* two workers, the stop requested: the tasks were dequeued in enqueue order
\* and the second one completed first
C28_Witness ==
  /\ nStarted = 2
  /\ stop_
  /\ enqOrder = <<1, 2>>
  /\ deqOrder = <<1, 2>>
  /\ Finished(2)
  /\ ~Finished(1)

\* C29: active_tasks_ changes only by the ++ of a locked dequeue step, which
\* also pops the task, and by the -- of a worker whose task body has
\* returned, taken with the counter at 1 or more; every dequeue counts its
\* task; and the counter always lies between 0 and the number of workers, is
\* the number of workers between their dequeue and their decrement, and so is
\* at least the number of workers inside a task body.
C29_ActiveCount ==
  /\ [](/\ 0 <= active_tasks_
        /\ active_tasks_ <= nStarted
        /\ active_tasks_ >= Cardinality(Executing)
        /\ active_tasks_ = Cardinality(InFlight))
  /\ [][active_tasks_' # active_tasks_ =>
          \E w \in Live :
            \/ /\ wstate[w] = "acquire" /\ wstate'[w] = "exec"
               /\ queue_mutex_ = Free
               /\ deqOrder' = Append(deqOrder, wtask'[w])
               /\ active_tasks_' = active_tasks_ + 1
            \/ /\ wstate[w] = "dec" /\ wstate'[w] = "notify"
               /\ Finished(wtask[w])
               /\ active_tasks_ >= 1
               /\ active_tasks_' = active_tasks_ - 1]_vars
  /\ [][deqOrder' # deqOrder => active_tasks_' = active_tasks_ + 1]_vars
  /\ [][\A w \in Live :
          (wstate[w] = "dec" /\ wstate'[w] # "dec") =>
             active_tasks_' = active_tasks_ - 1]_vars

\* two tasks counted, one still inside its body and one returned but not
\* yet subtracted
C29_Witness ==
  /\ active_tasks_ = 2
  /\ Cardinality(Executing) = 1
  /\ \E w \in Live : wstate[w] = "dec"

\* C30: in the C++20 variant the token a worker's loop waits on and the token
\* handed to a SubmitWithToken task both report exactly what the pool's stop
\* source reports (IsStopped()): from the moment Shutdown() has signalled the
\* source, every worker's token reports the stop.
C30_SingleCancellationSource ==
  variant = "cpp20" =>
    \A w \in Live :
      /\ TaskToken(w) = (IsStopped = 1)
      /\ WorkerStop(w) = (IsStopped = 1)

\* C31: IsStopped() reports false as long as no Shutdown() call has been
\* made; the flag is set only by a step of a caller inside Shutdown(); and
\* once set it stays set, whatever step follows (Submit, WaitForAll, a task
\* completing, another Shutdown()).
C31_StoppedMonotonic ==
  /\ []((IsStopped = 1) =>
          (shutdownDone \/ \E c \in Callers : InShutdown(c)))
  /\ [][(IsStopped = 0 /\ IsStopped' = 1) =>
          \E c \in Callers : pc[c] = "sd_begin" /\ pc'[c] = "sd_notify"]_vars
  /\ [][(IsStopped = 1) => (IsStopped' = 1)]_vars

\* after a Shutdown() has returned, a Submit was rejected, and a caller is
\* inside a repeated Shutdown() past its first step: the flag is still set
C31_Witness ==
  /\ IsStopped = 1
  /\ shutdownDone
  /\ rejected # {}
  /\ \E c \in Callers : cafter[c] /\ pc[c] \in {"sd_notify", "sd_loop"}

\* C32: a blocked worker has no step of its own until it is notified; a
\* worker at the head of its loop that finds the queue empty and no stop
\* requested goes (back) to the blocked wait, taking nothing, and it does get
\* there unless work or a stop arrives first; a worker starts a task only
\* from a non-empty queue and returns from its loop only on a stopped pool.
C32_IdleWorkersBlocked ==
  /\ [](\A w \in Live : wstate[w] = "blocked" => ~ENABLED WorkerStep(w))
  /\ [][\A w \in Live :
          /\ (wstate[w] = "blocked" /\ wstate'[w] # "blocked")
               => (wstate'[w] = "acquire" /\ UNCHANGED <<tasks_, deqOrder>>)
          /\ (wstate[w] = "acquire" /\ tasks_ = <<>> /\ ~stop_
                /\ wstate'[w] # wstate[w])
               => /\ wstate'[w] = "blocked"
                  /\ UNCHANGED <<tasks_, deqOrder, active_tasks_>>
          /\ (wstate[w] = "acquire" /\ wstate'[w] = "exec") => tasks_ # <<>>
          /\ Terminates(w) => stop_]_vars
  /\ \A w \in Workers :
       (w \in Live /\ wstate[w] = "acquire" /\ tasks_ = <<>> /\ ~stop_)
         ~> (wstate[w] = "blocked" \/ tasks_ # <<>> \/ stop_)

\* both workers are blocked on an idle pool after one of them ran a task
C32_Witness ==
  /\ nStarted = 2
  /\ \A w \in Live : wstate[w] = "blocked"
  /\ tasks_ = <<>>
  /\ ~stop_
  /\ Finished(1)

\* C33: in the C++20 variant a SubmitWithToken task that is in the queue once
\* Shutdown() has requested the stop is not dropped: a worker is still there
\* to take it, it is eventually invoked, its first poll sees the stop, so it
\* completes no iteration and its handle resolves to the interrupted
\* sentinel; and when Shutdown() returns, the queue is empty and every
\* enqueued token task has its handle resolved.
C33_PendingTokenTasksDrained ==
  /\ []((/\ variant = "cpp20"
          /\ stop_
          /\ \E t \in Range(tasks_) : taskFn[t] = "token")
         => \E w \in Live : wstate[w] # "terminated")
  /\ \A t \in TaskIds :
       (variant = "cpp20" /\ stop_ /\ t \in Range(tasks_) /\ taskFn[t] = "token")
         ~> /\ execCount[t] = 1
            /\ future[t] = Value(Interrupted)
            /\ iterations_completed[t] = 0
  /\ [][\A w \in Live :
          (/\ variant = "cpp20"
           /\ wstate[w] = "exec"
           /\ taskFn[wtask[w]] = "token"
           /\ witer[w] = 0
           /\ stop_
           /\ <<wstate[w], witer[w]>>' # <<wstate[w], witer[w]>>)
          => /\ wstate'[w] = "dec"
             /\ future'[wtask[w]] = Value(Interrupted)
             /\ iterations_completed'[wtask[w]] = 0]_vars
  /\ [][\A c \in Callers :
          (variant = "cpp20" /\ ShutdownReturns(c)) =>
            /\ tasks_' = <<>>
            /\ \A t \in Enqueued : taskFn[t] = "token" => future'[t] # Pending]_vars

\* a worker in its drain loop has just run a token task, which saw the stop
\* on its first poll
C33_Witness ==
  \E w \in Live :
    /\ variant = "cpp20"
    /\ wdrain[w]
    /\ wstate[w] = "dec"
    /\ taskFn[wtask[w]] = "token"
    /\ future[wtask[w]] = Value(Interrupted)
    /\ iterations_completed[wtask[w]] = 0
    /\ \E c \in Callers : InShutdown(c)

\* C34: the accepted submissions are, without overlap, the tasks pending in
\* tasks_, the tasks dequeued and not yet finished, and the finished tasks,
\* so their numbers add up; in terms of the pool's own counters, accepted =
\* pending + active_tasks_ + tasks already subtracted from active_tasks_;
\* rejected submissions are in none of these sets.
C34_TaskConservation ==
  LET \* dequeued, body not yet returned / body returned / dequeued and no
      \* longer counted by active_tasks_
      Unfinished == {t \in Range(deqOrder) : ~Finished(t)}
      Done       == {t \in Enqueued : Finished(t)}
      Subtracted == {t \in Range(deqOrder) : \A w \in InFlight : wtask[w] # t}
  IN  /\ Enqueued = Range(tasks_) \cup Unfinished \cup Done
      /\ Range(tasks_) \cap (Unfinished \cup Done) = {}
      /\ Unfinished \cap Done = {}
      /\ Len(enqOrder) =
           GetPendingTaskCount + Cardinality(Unfinished) + Cardinality(Done)
      /\ Len(enqOrder) =
           GetPendingTaskCount + GetActiveTaskCount + Cardinality(Subtracted)
      /\ rejected \cap (Enqueued \cup Range(tasks_) \cup Unfinished \cup Done) = {}

\* with the lock free: one task pending, one dequeued and still running
C34_Witness ==
  /\ queue_mutex_ = Free
  /\ Len(enqOrder) = 2
  /\ GetPendingTaskCount = 1
  /\ Len(deqOrder) = 1
  /\ \A t \in Enqueued : ~Finished(t)

\* the indices of the slots that hold a stored item
Occupied == {(head_ + i) % Capacity : i \in 0..(count_ - 1)}

\* C35: in every state 0 <= count_ <= Capacity, head_ and tail_ are below
\* Capacity, tail_ = (head_ + count_) mod Capacity and count_ slots are
\* occupied.  A Push that stores found count_ < Capacity, writes the slot at
\* tail_, which holds no stored item, and leaves every stored item where it
\* was; a Pop that returns an item found count_ > 0, returns the item of the
\* occupied slot at head_, which a Push put there, and frees that slot only.
C35_RingBounds ==
  /\ [](/\ count_ \in 0..Capacity
        /\ head_ \in 0..(Capacity - 1)
        /\ tail_ \in 0..(Capacity - 1)
        /\ tail_ = (head_ + count_) % Capacity
        /\ Cardinality(Occupied) = count_)
  /\ [][pushed' # pushed =>
          /\ count_ < Capacity
          /\ tail_ \notin Occupied
          /\ Occupied' = Occupied \cup {tail_}
          /\ \A i \in Occupied : buffer_'[i] = buffer_[i]
          /\ buffer_'[tail_] = pushed'[Len(pushed')]]_vars
  /\ [][popped' # popped =>
          /\ count_ > 0
          /\ head_ \in Occupied
          /\ Occupied' = Occupied \ {head_}
          /\ popped'[Len(popped')] = buffer_[head_]
          /\ buffer_[head_] \in Range(pushed)
          /\ buffer_' = buffer_]_vars

\* the indices have wrapped around and the buffer is full: the oldest item
\* is in the last slot, the newest in the first, tail_ has caught up with
\* head_
C35_Witness ==
  /\ Capacity = 2
  /\ ~wasReset
  /\ count_ = Capacity
  /\ head_ = 1
  /\ tail_ = 1
  /\ Len(popped) = 1
  /\ Len(pushed) = 3

\* the ring buffer used by threads that make MaxFewPushes Push calls at most
RingFewNext ==
  \/ \E th \in Threads : RingStep(th) /\ UNCHANGED pipeVars
  \/ \E th \in Threads :
       RingCall(th) /\ nPush' <= MaxFewPushes /\ UNCHANGED pipeVars
  \/ \E th \in Threads : RingSpuriousWake(th) /\ UNCHANGED pipeVars

\* the ring buffer's users are threads that keep running: a thread inside a
\* call takes its next step, and the time of a timed wait runs out
RingFairSpec ==
  /\ RingInit
  /\ [][RingFewNext]_vars
  /\ \A th \in 1..NumThreads : WF_vars(RingStep(th) /\ UNCHANGED pipeVars)

\* threads inside Stop() that have yet to notify the waiting poppers
StoppingEmpty == {th \in Threads : rpc[th] \in {"stop_not_full", "stop_not_empty"}}

\* thread th is blocked in a Push / Pop call that has no timeout
BlockedPush(th) == rpc[th] = "push_blocked" /\ ~rtimed[th]
BlockedPop(th)  == rpc[th] = "pop_blocked" /\ ~rtimed[th]

\* C36: Stop() wakes every waiter.  Each notify_all of Stop() leaves no thread
\* waiting on its condition variable, so on a stopped buffer a thread waits
\* in Push or Pop only while a Stop() has yet to notify it; a thread blocked
\* without timeout in Push, or in Pop on an empty buffer, of a buffer that
\* is stopped and stays stopped returns, the Push with false and the Pop
\* with nullopt.  A Stop() called on a stopped buffer after the earlier
\* Stop() has returned finds nobody waiting and changes nothing but its
\* caller's position.
C36_StopWakesAll ==
  /\ [][\A th \in Threads :
          /\ StopNotifyFull(th) => WaitingPush' = {}
          /\ StopNotifyEmpty(th) => WaitingPop' = {}]_vars
  /\ [](stopped_ => /\ WaitingPush # {} =>
                         \E th \in Threads : rpc[th] = "stop_not_full"
                    /\ WaitingPop # {} => StoppingEmpty # {})
  /\ \A th \in 1..NumThreads :
       /\ (stopped_ /\ BlockedPush(th)) ~> (rpc[th] = "idle" \/ ~stopped_)
       /\ (stopped_ /\ BlockedPop(th)) ~> (rpc[th] \in {"idle", "pop_notify"} \/ ~stopped_)
  /\ [][\A th \in Threads :
          (stopped_ /\ stopped_' /\ Moves(th)) =>
            /\ rpc[th] \in {"push", "push_blocked"} =>
                 /\ rpc'[th] \in {"push", "idle"}
                 /\ rpc'[th] = "idle" => ritem[th] \in Refused'
            /\ (rpc[th] \in {"pop", "pop_blocked"} /\ count_ = 0) =>
                 /\ rpc'[th] \in {"pop", "idle"}
                 /\ count_' = 0]_vars
  /\ [][\A th \in Threads :
          (stopped_ /\ StoppingEmpty = {} /\ th \in StoppingEmpty') =>
            /\ WaitingPush = {}
            /\ WaitingPop = {}
            /\ \A other \in Threads \ {th} : rpc'[other] = rpc[other]
            /\ UNCHANGED <<buffer_, head_, tail_, count_, stopped_, pushed,
                           popped>>]_vars
  /\ [][\A th \in Threads :
          (th \in StoppingEmpty /\ Moves(th)
             /\ WaitingPush = {} /\ WaitingPop = {}) =>
            /\ \A other \in Threads \ {th} : rpc'[other] = rpc[other]
            /\ UNCHANGED <<buffer_, head_, tail_, count_, stopped_, pushed,
                           popped>>]_vars

\* Stop() has set the flag of a full buffer and is about to notify; one
\* thread is blocked in an untimed Push
C36_Witness ==
  /\ stopped_
  /\ ~wasReset
  /\ count_ = Capacity
  /\ \E th \in Threads : rpc[th] = "stop_not_full"
  /\ \E th \in Threads : BlockedPush(th)

\* C37: no wake-up is lost.  On a buffer that is not stopped no thread stays
\* blocked in an untimed Pop while count_ > 0 persists, and none stays
\* blocked in an untimed Push while count_ < Capacity persists: such a
\* thread leaves its wait, or the buffer becomes empty (full) or stopped.
\* Every Push and Pop that took effect notifies one thread waiting on the
\* other condition variable, if there is one.
C37_NoLostWakeup ==
  /\ \A th \in 1..NumThreads :
       /\ (BlockedPop(th) /\ count_ > 0 /\ ~stopped_)
            ~> (~BlockedPop(th) \/ count_ = 0 \/ stopped_)
       /\ (BlockedPush(th) /\ count_ < Capacity /\ ~stopped_)
            ~> (~BlockedPush(th) \/ count_ = Capacity \/ stopped_)
  /\ [][\A th \in Threads :
          /\ PushNotify(th) =>
               (WaitingPop # {} => Cardinality(WaitingPop') = Cardinality(WaitingPop) - 1)
          /\ PopNotify(th) =>
               (WaitingPush # {} => Cardinality(WaitingPush') = Cardinality(WaitingPush) - 1)]_vars

\* the buffer is as the constructor leaves it, the content of the array aside
AsConstructed ==
  /\ head_ = 0
  /\ tail_ = 0
  /\ count_ = 0
  /\ ~stopped_

\* C38: Reset() leaves head_ = tail_ = count_ = 0 and the buffer not stopped,
\* with no item stored; the first Push that stores after it writes slot 0
\* and the first Pop that takes returns that item; and a producer that is
\* blocked in an untimed Push when Reset() empties the buffer goes on to
\* complete its Push, unless the buffer has become full again or stopped.
C38_Reset ==
  /\ [][\A th \in Threads :
          Reset(th) => (AsConstructed' /\ Contents' = <<>>)]_vars
  /\ [][(AsConstructed /\ pushed' # pushed) =>
          /\ buffer_'[0] = pushed'[Len(pushed')]
          /\ Contents' = <<pushed'[Len(pushed')]>>]_vars
  /\ [](AsConstructed =>
          \A th \in Threads :
            rpc[th] = "pop" => ENABLED (PopTry(th) /\ rpc'[th] = "pop_blocked"))
  /\ \A th \in 1..NumThreads :
       (wasReset /\ BlockedPush(th) /\ AsConstructed)
         ~> (rpc[th] \in {"push_notify", "idle"} \/ count_ = Capacity \/ stopped_)

====
